---------------------------- MODULE Spec2Model ----------------------------
(***************************************************************************)
(* A model of the save-game tools of the-forest-savegame-decoder:          *)
(* the envelope codec of the two swap tools (decode_resume/encode_resume), *)
(* the 7-bit integer codec, the SerV10 blob segmenters, the scalar patch   *)
(* (write_float) and the editor's load / edit / save cycle.                *)
(*                                                                         *)
(* Bytes are the integers 0..255, byte strings are sequences of bytes.     *)
(* Offsets are 0-based, as in the Python source; Slice and Find follow     *)
(* Python's data[a:b] and data.find(pattern, start).                       *)
(***************************************************************************)
EXTENDS Integers, Sequences, FiniteSets, TLC

VARIABLES
    pc,         \* position of the running tool in its scenario
    tool,       \* which program runs: "v2", "ps", "unity", "editor", ...
    disk,       \* the bytes of the save file on storage
    env,        \* the last result of decode_resume
    env0,       \* the result of decode_resume that encode_resume consumed
    value,      \* 7-bit codec: the integer written
    wire,       \* 7-bit codec: the bytes write_7bit_int produced
    readback,   \* 7-bit codec: what read_7bit_int returned
    payload,    \* segmenters: the decoded payload
    start,      \* segmenters: the offset the scan starts at
    blobs,      \* segmenters: the returned blobs
    data,       \* write_float: the bytearray
    data0,      \* write_float: the bytearray before the call; the editor:
                \* fully_decoded as loaded, before the edits
    pos,        \* write_float: the offset
    fval,       \* write_float: the value
    editor,     \* the fields of the ForestSaveEditor object
    saved,      \* editor.fully_decoded at the moment of the last save
    source,     \* the second input of an operation (the CS file of a swap)
    report,     \* what the last operation returned or reported
    stack       \* the recursive decoders: the calls in progress, innermost last

vars == <<pc, tool, disk, env, env0, value, wire, readback, payload, start,
          blobs, data, data0, pos, fval, editor, saved, source, report, stack>>

-----------------------------------------------------------------------------
(* Python's sequence primitives *)

Min(a, b) == IF a <= b THEN a ELSE b

\* Op applied to the value of v (v is evaluated once, then named)
With(v, Op(_)) == CHOOSE r \in {Op(x) : x \in {v}} : TRUE

Max(a, b) == IF a >= b THEN a ELSE b

\* data[a:b] for 0 <= a: the bytes at offsets a .. b-1, clamped to the buffer
Slice(s, a, b) ==
    LET lo == Max(a, 0)
        hi == Min(b, Len(s))
    IN  IF lo >= hi THEN << >> ELSE SubSeq(s, lo + 1, hi)

\* pat occurs in s at offset i
OccursAt(s, pat, i) ==
    /\ i >= 0
    /\ i + Len(pat) <= Len(s)
    /\ Len(pat) = 0 \/ s[i + 1] = pat[1]
    /\ SubSeq(s, i + 1, i + Len(pat)) = pat

\* the least member of a non-empty set of integers
Least(S) == CHOOSE x \in S : \A y \in S : x <= y

\* data.find(pat, from): the lowest offset >= from where pat occurs, else -1
Find(s, pat, from) ==
    LET hits == {i \in Max(from, 0)..(Len(s) - Len(pat)) : OccursAt(s, pat, i)}
    IN  IF hits = {} THEN -1 ELSE Least(hits)

RECURSIVE Concat(_)
\* b''.join(parts)
Concat(parts) ==
    IF Len(parts) = 0 THEN << >> ELSE Head(parts) \o Concat(Tail(parts))

\* all sequences over S of length at most n
SeqsUpTo(S, n) == UNION {[1..k -> S] : k \in 0..n}

-----------------------------------------------------------------------------
(* base64, as base64.b64encode and base64.b64decode (validate=False) do it *)

PadChar == 61

\* "ABCDEFGHIJKLMNOPQRSTUVWXYZabcdefghijklmnopqrstuvwxyz0123456789+/"
B64Alphabet ==
    [i \in 1..64 |->
        IF i <= 26 THEN 64 + i
        ELSE IF i <= 52 THEN 96 + (i - 26)
        ELSE IF i <= 62 THEN 47 + (i - 52)
        ELSE IF i = 63 THEN 43 ELSE 47]

B64Data == {B64Alphabet[i] : i \in 1..64}

\* the characters of a base64 run after the marker: the alphabet and '='
B64Chars == B64Data \cup {PadChar}

\* the characters of the whole-file test: the alphabet, '=', '\n' and '\r'
B64CharsNL == B64Chars \cup {10, 13}

\* the 6-bit value of a data character
B64Val(c) ==
    IF c >= 97 THEN c - 71
    ELSE IF c >= 65 THEN c - 65
    ELSE IF c >= 48 THEN c + 4
    ELSE IF c = 43 THEN 62 ELSE 63

B64Sym(v) == B64Alphabet[v + 1]

\* base64.b64encode(s): every three bytes give four characters, and a last
\* group of one or two bytes is filled up with '='
b64encode(s) ==
    LET n == Len(s)
        byte(i) == IF i <= n THEN s[i] ELSE 0
        char(k) ==
            LET g == 3 * ((k - 1) \div 4)
                r == (k - 1) % 4
            IN  IF r = 0 THEN B64Sym(byte(g + 1) \div 4)
                ELSE IF r = 1 THEN
                    B64Sym((byte(g + 1) % 4) * 16 + byte(g + 2) \div 16)
                ELSE IF g + r > n THEN PadChar
                ELSE IF r = 2 THEN
                    B64Sym((byte(g + 2) % 16) * 4 + byte(g + 3) \div 64)
                ELSE B64Sym(byte(g + 3) % 64)
    IN  [k \in 1..(4 * ((n + 2) \div 3)) |-> char(k)]

IsB64Data(c) == c \in B64Data

\* binascii.a2b_base64 in its default mode: characters outside the alphabet
\* are skipped; a '=' ends the input when it follows three characters of a
\* quad, or two characters and an earlier '='; an input that ends inside a
\* quad raises binascii.Error.  quad(i) is the place in its quad of the
\* character at index i.
A2B(s) ==
    LET quad(i) == Len(SelectSeq(SubSeq(s, 1, i - 1), IsB64Data)) % 4
        ends == {i \in 1..Len(s) :
                    /\ s[i] = PadChar
                    /\ \/ quad(i) = 3
                       \/ /\ quad(i) = 2
                          /\ \E j \in 1..(i - 1) :
                                /\ s[j] = PadChar
                                /\ \A k \in j..i : s[k] \notin B64Data}
        last == IF ends = {} THEN Len(s) ELSE Least(ends) - 1
        v == SelectSeq(SubSeq(s, 1, last), IsB64Data)
        six(k) == B64Val(v[k])
        out(j) ==
            LET g == 4 * ((j - 1) \div 3)
                r == (j - 1) % 3
            IN  IF r = 0 THEN six(g + 1) * 4 + six(g + 2) \div 16
                ELSE IF r = 1 THEN (six(g + 2) % 16) * 16 + six(g + 3) \div 4
                ELSE (six(g + 3) % 4) * 64 + six(g + 4)
    IN  IF ends = {} /\ Len(v) % 4 # 0 THEN [ok |-> FALSE, val |-> << >>]
        ELSE [ok |-> TRUE, val |-> [j \in 1..((Len(v) * 6) \div 8) |-> out(j)]]

\* base64.b64decode(s): [ok |-> FALSE] stands for the raised binascii.Error
b64decode(s) == A2B(s)

-----------------------------------------------------------------------------
(* the envelope codec of the swap tools *)

\* b'NOCOMPRESSION'
NOCOMPRESSION == << 78, 79, 67, 79, 77, 80, 82, 69, 83, 83, 73, 79, 78 >>

\* forest_swap_v2.decode_resume tests only raw[:1000]
Base64ProbeLen == 1000

Raised(what) ==
    [status |-> what, header |-> << >>, inner |-> << >>, is_base64 |-> FALSE]

Returned(header, inner, is_base64) ==
    [status |-> "ok", header |-> header, inner |-> inner,
     is_base64 |-> is_base64]

\* forest_swap_v2.decode_resume, the base64 test and the outer decoding:
\* only raw[:1000] is tested
outer_decode_v2(raw) ==
    LET is_base64 == \A i \in 1..Min(Len(raw), Base64ProbeLen) :
                        raw[i] \in B64CharsNL
        outer == IF is_base64 THEN b64decode(raw)
                 ELSE [ok |-> TRUE, val |-> raw]
    IN  [is_base64 |-> is_base64, ok |-> outer.ok, val |-> outer.val]

\* the mutant of decode_resume_v2: the missing-marker test is dropped
decode_resume_v2_unchecked(raw) ==
    LET outer == outer_decode_v2(raw)
        decoded == outer.val
        nocomp == Find(decoded, NOCOMPRESSION, 0)
        inner == b64decode(Slice(decoded, nocomp + 13, Len(decoded)))
    IN  IF ~outer.ok THEN Raised("Base64Error")
        ELSE IF ~inner.ok THEN Raised("Base64Error")
        ELSE Returned(Slice(decoded, 0, nocomp + 13), inner.val,
                      outer.is_base64)

\* forest_swap_v2.decode_resume, on the bytes of the file
decode_resume_v2(raw) ==
    LET outer == outer_decode_v2(raw)
        decoded == outer.val
        nocomp == Find(decoded, NOCOMPRESSION, 0)
        inner == b64decode(Slice(decoded, nocomp + 13, Len(decoded)))
    IN  IF ~outer.ok THEN Raised("Base64Error")
        ELSE IF nocomp = -1 THEN Raised("MissingMarker")
        ELSE IF ~inner.ok THEN Raised("Base64Error")
        ELSE Returned(Slice(decoded, 0, nocomp + 13), inner.val,
                      outer.is_base64)

\* forest_swap_v2.encode_resume
encode_resume_v2(header, inner, is_base64) ==
    LET decoded == header \o b64encode(inner)
    IN  IF is_base64 THEN b64encode(decoded) ELSE decoded

\* the while loop that finds the end of the base64 run starting at offset
\* i: the first offset from i on that holds no base64 character, or the
\* length of the buffer
RunEnd(s, i) ==
    LET stops == {j \in i..(Len(s) - 1) : s[j + 1] \notin B64Chars}
    IN  IF i >= Len(s) THEN i
        ELSE IF stops = {} THEN Len(s) ELSE Least(stops)

\* forest_player_swap.decode_resume, the base64 test and the outer decoding
outer_decode_ps(raw) ==
    LET is_base64 == \A i \in 1..Len(raw) : raw[i] \in B64CharsNL
        outer == IF is_base64 THEN b64decode(raw)
                 ELSE [ok |-> TRUE, val |-> raw]
    IN  [is_base64 |-> is_base64, ok |-> outer.ok, val |-> outer.val]

\* forest_player_swap.decode_resume, on the bytes of the file
decode_resume_ps(raw) ==
    LET outer == outer_decode_ps(raw)
        decoded == outer.val
        nocomp_pos == Find(decoded, NOCOMPRESSION, 0)
        inner_start == nocomp_pos + Len(NOCOMPRESSION)
        inner_end == RunEnd(decoded, inner_start)
        inner == b64decode(Slice(decoded, inner_start, inner_end))
    IN  IF ~outer.ok THEN Raised("Base64Error")
        ELSE IF nocomp_pos = -1 THEN Raised("MissingMarker")
        ELSE IF ~inner.ok THEN Raised("Base64Error")
        ELSE Returned(Slice(decoded, 0, nocomp_pos), inner.val,
                      outer.is_base64)

\* forest_player_swap.encode_resume
encode_resume_ps(header, inner, is_base64) ==
    LET decoded == header \o NOCOMPRESSION \o b64encode(inner)
    IN  IF is_base64 THEN b64encode(decoded) ELSE decoded


-----------------------------------------------------------------------------
(* the swap tools' session on one save file: decode, encode, decode again *)

MaxHeader == 2

MaxPayload == 3

MaxTail == 1

HeaderBytes == {1, 72}

PayloadBytes == {1, 200}

TailBytes == {1, 10, 65}

\* b'HDR' and b'payload', the instance the specification names
HDR == << 72, 68, 82 >>

PayloadWord == << 112, 97, 121, 108, 111, 97, 100 >>

Headers == SeqsUpTo(HeaderBytes, MaxHeader) \cup {HDR}

Payloads == SeqsUpTo(PayloadBytes, MaxPayload) \cup {PayloadWord}

Tails == SeqsUpTo(TailBytes, MaxTail)

\* header, marker, base64 of the payload, then whatever follows the run
MarkedFiles ==
    {h \o NOCOMPRESSION \o b64encode(p) \o t :
        h \in Headers, p \in Payloads, t \in Tails}

\* files in which the marker is cut short
UnmarkedFiles ==
    {h \o SubSeq(NOCOMPRESSION, 1, k) \o t :
        h \in Headers, k \in {0, 12}, t \in Tails}

EnvelopeFiles ==
    LET plain == MarkedFiles \cup UnmarkedFiles
    IN  plain \cup {b64encode(f) : f \in plain}

NoEnvelope == Raised("none")

Idle == << >>

InitEnvelope ==
    /\ pc = "start"
    /\ tool \in {"v2", "ps"}
    /\ disk \in EnvelopeFiles
    /\ env = NoEnvelope
    /\ env0 = NoEnvelope
    /\ value = 0 /\ wire = Idle /\ readback = Idle
    /\ payload = Idle /\ start = 0 /\ blobs = Idle
    /\ data = Idle /\ data0 = Idle /\ pos = 0 /\ fval = 0
    /\ editor = Idle /\ saved = Idle
    /\ source = Idle /\ report = Idle /\ stack = Idle

decode_resume(t, raw) ==
    IF t = "v2" THEN decode_resume_v2(raw) ELSE decode_resume_ps(raw)

encode_resume(t, header, inner, is_base64) ==
    IF t = "v2" THEN encode_resume_v2(header, inner, is_base64)
    ELSE encode_resume_ps(header, inner, is_base64)

outer_decode(t, raw) ==
    IF t = "v2" THEN outer_decode_v2(raw) ELSE outer_decode_ps(raw)

\* header, inner, is_base64 = decode_resume(path)
DecodeResume ==
    /\ pc \in {"start", "encoded"}
    /\ env' = decode_resume(tool, disk)
    /\ pc' = IF pc = "start" THEN "decoded" ELSE "redecoded"
    /\ UNCHANGED <<tool, disk, env0, value, wire, readback, payload, start,
                   blobs, data, data0, pos, fval, editor, saved>>
    /\ UNCHANGED <<source, report, stack>>

\* final = encode_resume(header, inner, is_base64); f.write(final)
EncodeResume ==
    /\ pc = "decoded"
    /\ env.status = "ok"
    /\ disk' = encode_resume(tool, env.header, env.inner, env.is_base64)
    /\ env0' = env
    /\ pc' = "encoded"
    /\ UNCHANGED <<tool, env, value, wire, readback, payload, start,
                   blobs, data, data0, pos, fval, editor, saved>>
    /\ UNCHANGED <<source, report, stack>>

NextEnvelope == DecodeResume \/ EncodeResume

SpecEnvelope == InitEnvelope /\ [][NextEnvelope]_vars

Contains(s, pat) == \E i \in 0..Len(s) : OccursAt(s, pat, i)

\* C1: whenever decode_resume succeeded on a file, decoding the bytes
\* encode_resume produced from its result succeeds too and yields the same
\* inner payload.
C1_RoundTrip ==
    (pc = "redecoded" /\ env0.status = "ok")
        => (env.status = "ok" /\ env.inner = env0.inner)

\* C2: decode_resume of header + NOCOMPRESSION + base64(p), a file with no
\* outer base64 layer, returns is_base64 = False, the header up to and
\* including the marker, and p as the inner payload.
C2_PlainScenario ==
    \A h \in Headers, p \in Payloads :
        (pc = "decoded" /\ tool = "v2"
            /\ disk = h \o NOCOMPRESSION \o b64encode(p))
        => env = Returned(h \o NOCOMPRESSION, p, FALSE)

\* C4: when the bytes left by the outer base64 test and decoding do not
\* contain NOCOMPRESSION, decode_resume raises the missing-marker error and
\* returns no envelope.
C4_MissingMarker ==
    (pc \in {"decoded", "redecoded"}
        /\ outer_decode(tool, disk).ok
        /\ ~Contains(outer_decode(tool, disk).val, NOCOMPRESSION))
    => env = Raised("MissingMarker")

\* an outer-base64 file whose decoded bytes lack the marker was refused
C4_Witness ==
    /\ pc = "decoded"
    /\ outer_decode(tool, disk).is_base64
    /\ outer_decode(tool, disk).ok
    /\ Len(outer_decode(tool, disk).val) >= 12
    /\ env.status = "MissingMarker"

-----------------------------------------------------------------------------
(* the 7-bit variable-length integer codec *)

RECURSIVE BitAnd(_, _)
\* a & b, for a, b >= 0
BitAnd(a, b) ==
    IF a = 0 \/ b = 0 THEN 0
    ELSE (a % 2) * (b % 2) + 2 * BitAnd(a \div 2, b \div 2)

RECURSIVE BitOr(_, _)
\* a | b, for a, b >= 0
BitOr(a, b) ==
    IF a = 0 THEN b
    ELSE IF b = 0 THEN a
    ELSE Max(a % 2, b % 2) + 2 * BitOr(a \div 2, b \div 2)

\* a << n and a >> n
ShiftLeft(a, n) == a * 2^n

ShiftRight(a, n) == a \div 2^n

RECURSIVE Read7Bit(_, _, _, _)
\* the loop of read_7bit_int; data[pos] past the end raises IndexError
Read7Bit(bytes, p, result, shift) ==
    IF p >= Len(bytes) THEN [ok |-> FALSE, value |-> 0, pos |-> p]
    ELSE LET b == bytes[p + 1]
             r == BitOr(result, ShiftLeft(BitAnd(b, 127), shift))
         IN  IF BitAnd(b, 128) = 0 THEN [ok |-> TRUE, value |-> r, pos |-> p + 1]
             ELSE Read7Bit(bytes, p + 1, r, shift + 7)

\* forest_swap_v2.read_7bit_int(data, pos) -> (result, pos)
read_7bit_int(bytes, p) == Read7Bit(bytes, p, 0, 0)

\* BinaryReader.read_7bit_encoded_int, the reader standing at offset p
read_7bit_encoded_int(bytes, p) == Read7Bit(bytes, p, 0, 0)

RECURSIVE Write7Bit(_)
\* the loop of write_7bit_int
Write7Bit(v) ==
    IF v >= 128 THEN << BitOr(BitAnd(v, 127), 128) >> \o Write7Bit(ShiftRight(v, 7))
    ELSE << v >>

RECURSIVE Write7BitLate(_)
\* the mutant of the loop: the test reads value > 0x80
Write7BitLate(v) ==
    IF v > 128 THEN << BitOr(BitAnd(v, 127), 128) >> \o Write7BitLate(ShiftRight(v, 7))
    ELSE << v >>

\* the mutant of write_7bit_int
write_7bit_int_late(v) ==
    IF v < 0 THEN [ok |-> FALSE, bytes |-> << >>]
    ELSE [ok |-> TRUE, bytes |-> Write7BitLate(v)]

\* forest_swap_v2.write_7bit_int(value); bytearray.append of a negative
\* value raises ValueError
write_7bit_int(v) ==
    IF v < 0 THEN [ok |-> FALSE, bytes |-> << >>]
    ELSE [ok |-> TRUE, bytes |-> Write7Bit(v)]

\* BinaryWriter.write_7bit_encoded_int(value); write_byte masks with 0xFF
write_7bit_encoded_int(v) ==
    IF v < 0 THEN [ok |-> TRUE, bytes |-> << v % 256 >>]
    ELSE [ok |-> TRUE, bytes |-> Write7Bit(v)]

MaxSmallValue == 300

\* the integers written: the small ones, and those around every change of
\* the encoded length up to five bytes
VarIntValues ==
    (-1..MaxSmallValue)
    \cup {2^k + d : k \in {7, 14, 21, 28}, d \in {-1, 0, 1}}
    \cup {2147483647}

InitVarInt ==
    /\ pc = "start"
    /\ tool \in {"v2", "unity"}
    /\ value \in VarIntValues
    /\ wire = Idle
    /\ readback = Idle
    /\ disk = Idle /\ env = NoEnvelope /\ env0 = NoEnvelope
    /\ payload = Idle /\ start = 0 /\ blobs = Idle
    /\ data = Idle /\ data0 = Idle /\ pos = 0 /\ fval = 0
    /\ editor = Idle /\ saved = Idle
    /\ source = Idle /\ report = Idle /\ stack = Idle

\* wire = write_7bit_int(value)
WriteVarInt ==
    /\ pc = "start"
    /\ LET w == IF tool = "v2" THEN write_7bit_int(value)
                ELSE write_7bit_encoded_int(value)
       IN  IF w.ok THEN wire' = w.bytes /\ pc' = "written"
           ELSE wire' = wire /\ pc' = "raised"
    /\ UNCHANGED <<tool, disk, env, env0, value, readback, payload, start,
                   blobs, data, data0, pos, fval, editor, saved>>
    /\ UNCHANGED <<source, report, stack>>

\* readback = read_7bit_int(wire, 0)
ReadVarInt ==
    /\ pc = "written"
    /\ readback' = IF tool = "v2" THEN read_7bit_int(wire, 0)
                   ELSE read_7bit_encoded_int(wire, 0)
    /\ pc' = "read"
    /\ UNCHANGED <<tool, disk, env, env0, value, wire, payload, start,
                   blobs, data, data0, pos, fval, editor, saved>>
    /\ UNCHANGED <<source, report, stack>>

NextVarInt == WriteVarInt \/ ReadVarInt

SpecVarInt == InitVarInt /\ [][NextVarInt]_vars

\* C5: reading, from position 0, the bytes written for a non-negative
\* integer returns that integer and a new position equal to the number of
\* bytes written.
C5_VarIntRoundTrip ==
    (pc = "read" /\ value >= 0)
        => readback = [ok |-> TRUE, value |-> value, pos |-> Len(wire)]

\* a five-byte encoding was written and read back
C5_Witness ==
    /\ pc = "read"
    /\ value >= 2^28
    /\ Len(wire) = 5
    /\ readback.ok

-----------------------------------------------------------------------------
(* the blob segmenters *)

\* b'\x06SerV10', the length-prefixed version string that starts a blob
SerV10Marker ==
    << 6, 83, 101, 114, 86, 49, 48 >>

\* text is kept as its sequence of code points
Str_ParseError ==
    << 80, 97, 114, 115, 101, 69, 114, 114, 111, 114 >>

\* "ParseError: "
Str_ParseErrorColon ==
    << 80, 97, 114, 115, 101, 69, 114, 114, 111, 114, 58, 32 >>

\* str(IndexError) of data[pos] past the end of a bytes object
Str_IndexError ==
    << 105, 110, 100, 101, 120, 32, 111, 117, 116, 32, 111, 102, 32, 114,
       97, 110, 103, 101 >>

\* str(struct.error) of struct.unpack('<I', ...) on fewer than 4 bytes
Str_StructError ==
    << 117, 110, 112, 97, 99, 107, 32, 114, 101, 113, 117, 105, 114, 101,
       115, 32, 97, 32, 98, 117, 102, 102, 101, 114, 32, 111, 102, 32, 52,
       32, 98, 121, 116, 101, 115 >>

Str_Unknown ==
    << 85, 110, 107, 110, 111, 119, 110 >>

\* bytes.decode('utf-8', errors='replace'): an ASCII byte is its own code
\* point; a byte that starts no valid sequence becomes U+FFFD (multi-byte
\* sequences do not occur in the payloads drawn below)
Utf8Replace(bytes) ==
    [i \in 1..Len(bytes) |-> IF bytes[i] < 128 THEN bytes[i] ELSE 65533]

\* struct.unpack('<I', b)[0] of four bytes
U32LE(b) == b[1] + 256 * b[2] + 65536 * b[3] + 16777216 * b[4]

RECURSIVE FindAllFromPast(_, _, _)
\* the mutant of FindAllFrom: the scan resumes one byte past the match
FindAllFromPast(s, pat, p) ==
    LET idx == Find(s, pat, p)
    IN  IF idx = -1 THEN << >>
        ELSE << idx >> \o FindAllFromPast(s, pat, idx + Len(pat) + 1)

RECURSIVE FindAllFrom(_, _, _)
\* the loop "idx = data.find(pattern, pos); ...; pos = idx + 1"
FindAllFrom(s, pat, p) ==
    LET idx == Find(s, pat, p)
    IN  IF idx = -1 THEN << >>
        ELSE << idx >> \o FindAllFrom(s, pat, idx + 1)

\* find_all(data, pattern)
find_all(s, pat) == FindAllFrom(s, pat, 0)

ParseFailed(msg) == [ok |-> FALSE, types |-> << >>, msg |-> msg]

Parsed(types) == [ok |-> TRUE, types |-> types, msg |-> << >>]

RECURSIVE ReadTypes_v2(_, _, _, _)
\* find_blobs: "for _ in range(type_count)": a length, then the name; the
\* slice of the name is cut at the end of the blob without an error
ReadTypes_v2(blob, p, n, acc) ==
    IF n = 0 THEN Parsed(acc)
    ELSE LET r == read_7bit_int(blob, p)
         IN  IF ~r.ok THEN ParseFailed(Str_IndexError)
             ELSE ReadTypes_v2(blob, r.pos + r.value, n - 1,
                     Append(acc,
                         Utf8Replace(Slice(blob, r.pos, r.pos + r.value))))

\* find_blobs: the try block that parses one blob's own header
parse_blob_header_v2(blob) ==
    LET v == read_7bit_int(blob, 0)
        at == v.pos + v.value + 1
        cnt == Slice(blob, at, at + 4)
    IN  IF ~v.ok THEN ParseFailed(Str_IndexError)
        ELSE IF Len(cnt) # 4 THEN ParseFailed(Str_StructError)
        ELSE ReadTypes_v2(blob, at + 4, U32LE(cnt), << >>)

\* the Blob an iteration of find_blobs appends
blob_of_v2(s, posns, i) ==
    LET blob_start == posns[i]
        blob_end == IF i + 1 <= Len(posns) THEN posns[i + 1] ELSE Len(s)
        blob_data == Slice(s, blob_start, blob_end)
        hdr == parse_blob_header_v2(blob_data)
    IN  [offset |-> blob_start,
         data |-> blob_data,
         types |-> IF hdr.ok THEN hdr.types
                   ELSE << Str_ParseErrorColon \o hdr.msg >>]

\* the mutant of find_blobs: a blob that fails to parse is dropped
find_blobs_dropping(s, from) ==
    LET posns == FindAllFrom(s, SerV10Marker, from)
        all == [i \in 1..Len(posns) |-> blob_of_v2(s, posns, i)]
    IN  SelectSeq(all, LAMBDA b :
            Len(b.types) # 1
            \/ SubSeq(b.types[1], 1, Min(10, Len(b.types[1]))) # Str_ParseError)

\* the mutant of find_blobs: every blob runs to the end of the data
find_blobs_to_end(s, from) ==
    LET posns == FindAllFrom(s, SerV10Marker, from)
    IN  [i \in 1..Len(posns) |->
            [blob_of_v2(s, posns, i) EXCEPT
                !.data = Slice(s, posns[i], Len(s))]]

\* forest_swap_v2.find_blobs(data, start)
find_blobs(s, from) ==
    LET posns == FindAllFrom(s, SerV10Marker, from)
    IN  [i \in 1..Len(posns) |-> blob_of_v2(s, posns, i)]

\* Blob.primary_type
primary_type(b) == IF Len(b.types) > 0 THEN b.types[1] ELSE Str_Unknown

\* BinaryReader.read_length_prefixed_string, the reader standing at p
read_length_prefixed_string(bytes, p) ==
    LET r == read_7bit_encoded_int(bytes, p)
    IN  IF ~r.ok THEN [ok |-> FALSE, str |-> << >>, pos |-> p]
        ELSE IF r.value = 0 THEN [ok |-> TRUE, str |-> << >>, pos |-> r.pos]
        ELSE [ok |-> TRUE,
              str |-> Utf8Replace(Slice(bytes, r.pos, r.pos + r.value)),
              pos |-> r.pos + r.value]

RECURSIVE ReadTypes_unity(_, _, _, _)
\* BinaryReader.read_type_list, after the count
ReadTypes_unity(bytes, p, n, acc) ==
    IF n = 0 THEN Parsed(acc)
    ELSE LET r == read_length_prefixed_string(bytes, p)
         IN  IF ~r.ok THEN ParseFailed(Str_IndexError)
             ELSE ReadTypes_unity(bytes, r.pos, n - 1, Append(acc, r.str))

\* mini_reader.read_header() then mini_reader.read_type_list()
parse_blob_header_unity(bytes) ==
    LET v == read_length_prefixed_string(bytes, 0)
        cnt == Slice(bytes, v.pos + 1, v.pos + 5)
    IN  IF ~v.ok THEN ParseFailed(Str_IndexError)
        ELSE IF v.pos >= Len(bytes) THEN ParseFailed(Str_IndexError)
        ELSE IF Len(cnt) # 4 THEN ParseFailed(Str_StructError)
        ELSE ReadTypes_unity(bytes, v.pos + 5, U32LE(cnt), << >>)

\* UnitySerializer._parse_level_data_heuristic(start_pos): the StoredData
\* items appended to level_data.stored_items (class_id is always "")
parse_level_data_heuristic(s, start_pos) ==
    LET tail == Slice(s, start_pos, Len(s))
        found == FindAllFrom(tail, SerV10Marker, 0)
        posns == [i \in 1..Len(found) |-> start_pos + found[i]]
    IN  [i \in 1..Len(posns) |->
            LET end_pos == IF i + 1 <= Len(posns) THEN posns[i + 1]
                           ELSE Len(s)
                obj_data == Slice(s, posns[i], end_pos)
                hdr == parse_blob_header_unity(obj_data)
            IN  [data |-> obj_data,
                 name |-> i - 1,
                 type_name |->
                    IF ~hdr.ok THEN Str_ParseError
                    ELSE IF Len(hdr.types) > 0 THEN hdr.types[1]
                    ELSE Str_Unknown]]

\* find_object_boundaries: the type patterns, in the order they are tried
type_patterns == <<
    << 84, 104, 101, 70, 111, 114, 101, 115, 116, 46, 73, 116, 101, 109,
       115, 46, 73, 110, 118, 101, 110, 116, 111, 114, 121, 46, 73, 110,
       118, 101, 110, 116, 111, 114, 121, 73, 116, 101, 109, 86, 105, 101,
       119 >>,
    << 84, 104, 101, 70, 111, 114, 101, 115, 116, 46, 73, 116, 101, 109,
       115, 46, 73, 110, 118, 101, 110, 116, 111, 114, 121, 46, 68, 101,
       99, 97, 121, 105, 110, 103, 73, 110, 118, 101, 110, 116, 111, 114,
       121, 73, 116, 101, 109, 86, 105, 101, 119 >>,
    << 84, 104, 101, 70, 111, 114, 101, 115, 116, 46, 73, 116, 101, 109,
       115, 46, 67, 114, 97, 102, 116, 46, 85, 112, 103, 114, 97, 100, 101,
       86, 105, 101, 119, 82, 101, 99, 101, 105, 118, 101, 114 >>,
    << 84, 104, 101, 70, 111, 114, 101, 115, 116, 46, 80, 108, 97, 121,
       101, 114, 46 >>,
    << 84, 104, 101, 70, 111, 114, 101, 115, 116, 46, 66, 117, 105, 108,
       100, 105, 110, 103, 115, 46 >>,
    << 84, 104, 101, 70, 111, 114, 101, 115, 116, 46, 73, 116, 101, 109,
       115, 46 >>,
    << 85, 110, 105, 116, 121, 69, 110, 103, 105, 110, 101, 46, 84, 114,
       97, 110, 115, 102, 111, 114, 109 >>
    >>

RECURSIVE PrintableEnd(_, _)
\* "while end_idx < len(section) and 32 <= section[end_idx] < 127"
PrintableEnd(section, i) ==
    IF i < Len(section) /\ 32 <= section[i + 1] /\ section[i + 1] < 127
    THEN PrintableEnd(section, i + 1) ELSE i

\* find_object_boundaries: the type name of a section, from the first
\* pattern of the list that occurs in it
section_type_name(section) ==
    LET hits == {k \in 1..Len(type_patterns) :
                    Find(section, type_patterns[k], 0) # -1}
    IN  IF hits = {} THEN Str_Unknown
        ELSE LET k == CHOOSE x \in hits : \A y \in hits : x <= y
                 idx == Find(section, type_patterns[k], 0)
             IN  Utf8Replace(Slice(section, idx, PrintableEnd(section, idx)))

\* forest_player_swap.find_object_boundaries(data); the guid field, a
\* display aid, is left out
find_object_boundaries(s) ==
    LET posns == find_all(s, SerV10Marker)
    IN  [i \in 1..Len(posns) |->
            LET end == IF i + 1 <= Len(posns) THEN posns[i + 1] ELSE Len(s)
                section == Slice(s, posns[i], end)
            IN  [start |-> posns[i], end |-> end,
                 type_name |-> section_type_name(section),
                 data |-> section]]

-----------------------------------------------------------------------------
(* segmenting one decoded payload *)

MaxChunks == 3

\* a blob that parses: one type, named "TheForest.Items."
BlobTyped ==
    SerV10Marker \o << 0, 1, 0, 0, 0, 16 >> \o type_patterns[6]

\* a blob that parses to no type at all
BlobUntyped == SerV10Marker \o << 0, 0, 0, 0, 0 >>

\* a blob that announces two types and holds only the first, "P"
BlobShort == SerV10Marker \o << 0, 2, 0, 0, 0, 1, 80 >>

\* the pieces payloads are made of: the three blobs, a bare marker, an
\* opaque byte, and the first two bytes of a marker
Chunks == {BlobTyped, BlobUntyped, BlobShort, SerV10Marker, << 1 >>, << 6, 83 >>}

SegmentPayloads == {Concat(cs) : cs \in SeqsUpTo(Chunks, MaxChunks)}

InitSegment ==
    /\ pc = "start"
    /\ tool \in {"v2", "unity", "ps"}
    /\ payload \in SegmentPayloads
    /\ start \in IF tool = "ps" THEN {0} ELSE 0..Len(payload)
    /\ blobs = Idle
    /\ disk = Idle /\ env = NoEnvelope /\ env0 = NoEnvelope
    /\ value = 0 /\ wire = Idle /\ readback = Idle
    /\ data = Idle /\ data0 = Idle /\ pos = 0 /\ fval = 0
    /\ editor = Idle /\ saved = Idle
    /\ source = Idle /\ report = Idle /\ stack = Idle

\* blobs = find_blobs(inner, data_start)
FindBlobs ==
    /\ pc = "start" /\ tool = "v2"
    /\ blobs' = find_blobs(payload, start)
    /\ pc' = "segmented"
    /\ UNCHANGED <<tool, disk, env, env0, value, wire, readback, payload,
                   start, data, data0, pos, fval, editor, saved>>
    /\ UNCHANGED <<source, report, stack>>

\* level_data = self._parse_level_data_heuristic(start_pos)
ParseLevelDataHeuristic ==
    /\ pc = "start" /\ tool = "unity"
    /\ blobs' = parse_level_data_heuristic(payload, start)
    /\ pc' = "segmented"
    /\ UNCHANGED <<tool, disk, env, env0, value, wire, readback, payload,
                   start, data, data0, pos, fval, editor, saved>>
    /\ UNCHANGED <<source, report, stack>>

\* objects = find_object_boundaries(data)
FindObjectBoundaries ==
    /\ pc = "start" /\ tool = "ps"
    /\ blobs' = find_object_boundaries(payload)
    /\ pc' = "segmented"
    /\ UNCHANGED <<tool, disk, env, env0, value, wire, readback, payload,
                   start, data, data0, pos, fval, editor, saved>>
    /\ UNCHANGED <<source, report, stack>>

NextSegment == FindBlobs \/ ParseLevelDataHeuristic \/ FindObjectBoundaries

SpecSegment == InitSegment /\ [][NextSegment]_vars

\* the offsets >= from at which the marker occurs, as a set
MarkerOffsets(s, from) ==
    {i \in from..Len(s) : OccursAt(s, SerV10Marker, i)}

\* the k-th smallest element of a set of integers
RECURSIVE KthSmallest(_, _)
KthSmallest(S, k) ==
    LET m == CHOOSE x \in S : \A y \in S : x <= y
    IN  IF k = 1 THEN m ELSE KthSmallest(S \ {m}, k - 1)

\* the bytes of all returned blobs, in order
BlobBytes == Concat([i \in 1..Len(blobs) |-> blobs[i].data])

\* the spans [start, end) of the returned blobs; StoredData keeps no offset,
\* so for unity the spans are laid out backwards from the end of the buffer
RECURSIVE TotalLen(_, _)
TotalLen(bs, i) == IF i > Len(bs) THEN 0 ELSE Len(bs[i].data) + TotalLen(bs, i + 1)

SpanStart(i) ==
    IF tool = "v2" THEN blobs[i].offset
    ELSE IF tool = "ps" THEN blobs[i].start
    ELSE Len(payload) - TotalLen(blobs, i)

SpanEnd(i) ==
    IF tool = "ps" THEN blobs[i].end ELSE SpanStart(i) + Len(blobs[i].data)

\* C6, as claimed: the blobs find_blobs returns are contiguous and cover
\* [start, len(payload)) exactly, however many markers there are.
C6_CoversFromStart ==
    (pc = "segmented" /\ tool = "v2")
    => /\ BlobBytes = Slice(payload, start, Len(payload))
       /\ Len(blobs) > 0 => SpanStart(1) = start
       /\ \A i \in 1..(Len(blobs) - 1) : SpanEnd(i) = SpanStart(i + 1)

\* C6, amended: the blobs find_blobs returns are contiguous and cover
\* exactly [m, len(payload)), m being the first marker offset at or after
\* start; the bytes of [start, m) are in no blob, and without such a marker
\* no blob is returned.
C6_CoversFromFirstMarker ==
    (pc = "segmented" /\ tool = "v2")
    => LET ms == MarkerOffsets(payload, start)
       IN  IF ms = {} THEN blobs = << >>
           ELSE /\ Len(blobs) > 0
                /\ SpanStart(1) = KthSmallest(ms, 1)
                /\ BlobBytes = Slice(payload, SpanStart(1), Len(payload))
                /\ \A i \in 1..(Len(blobs) - 1) : SpanEnd(i) = SpanStart(i + 1)
                /\ SpanEnd(Len(blobs)) = Len(payload)

\* several blobs were found behind a prefix that belongs to none of them
C6_Witness ==
    /\ pc = "segmented" /\ tool = "v2"
    /\ Len(blobs) >= 2
    /\ SpanStart(1) > start

\* C7: the returned blobs have strictly ascending start offsets, each starts
\* at a marker occurrence, each ends where the next starts, the last ends at
\* the buffer length, and the marker occurs in a blob's bytes at offset 0
\* only.
C7_BlobOrdering ==
    (pc = "segmented")
    => /\ \A i \in 1..Len(blobs) :
            /\ OccursAt(payload, SerV10Marker, SpanStart(i))
            /\ blobs[i].data = Slice(payload, SpanStart(i), SpanEnd(i))
            /\ {k \in 0..Len(blobs[i].data) :
                    OccursAt(blobs[i].data, SerV10Marker, k)} = {0}
       /\ \A i \in 1..(Len(blobs) - 1) :
            /\ SpanStart(i) < SpanStart(i + 1)
            /\ SpanEnd(i) = SpanStart(i + 1)
       /\ Len(blobs) > 0 => SpanEnd(Len(blobs)) = Len(payload)

\* three blobs were returned, the first of them a bare marker
C7_Witness ==
    /\ pc = "segmented"
    /\ Len(blobs) = 3
    /\ blobs[1].data = SerV10Marker

\* the outcome of parsing the own header of the i-th returned blob
HeaderOf(i) ==
    IF tool = "v2" THEN parse_blob_header_v2(blobs[i].data)
    ELSE parse_blob_header_unity(blobs[i].data)

\* the i-th blob spans from the i-th marker at or after start to the next
\* one, or to the end of the payload
FullSpan(i) ==
    LET ms == MarkerOffsets(payload, start)
        from == KthSmallest(ms, i)
        to == IF i < Cardinality(ms) THEN KthSmallest(ms, i + 1)
              ELSE Len(payload)
    IN  blobs[i].data = Slice(payload, from, to)

\* what a blob whose header parses is labelled with
LabelledAsParsed(i) ==
    IF tool = "v2" THEN blobs[i].types = HeaderOf(i).types
    ELSE blobs[i].type_name =
            IF Len(HeaderOf(i).types) > 0 THEN HeaderOf(i).types[1]
            ELSE Str_Unknown

-----------------------------------------------------------------------------
(* 32-bit floats and the scalar patch *)

\* A float is kept as the three fields of its IEEE-754 single encoding:
\* the sign bit, the biased exponent and the 23-bit fraction.
F32(s, e, m) == [sign |-> s, exp |-> e, frac |-> m]

RECURSIVE Log2Floor(_)
Log2Floor(n) == IF n <= 1 THEN 0 ELSE 1 + Log2Floor(n \div 2)

\* the float equal to the integer n, |n| < 2^24
FromInt(n) ==
    LET a == IF n < 0 THEN -n ELSE n
        e == Log2Floor(a)
    IN  IF a = 0 THEN F32(0, 0, 0)
        ELSE F32(IF n < 0 THEN 1 ELSE 0, e + 127, (a - 2^e) * 2^(23 - e))

IsNaN(f) == f.exp = 255 /\ f.frac # 0

\* the floats in their numeric order: exponent and fraction give the
\* magnitude, the sign bit the side of zero
Rank(f) ==
    LET k == f.exp * 2^23 + f.frac IN IF f.sign = 1 THEN -k ELSE k

\* a < b and a <= b; every comparison with a NaN is false
FLess(a, b) == ~IsNaN(a) /\ ~IsNaN(b) /\ Rank(a) < Rank(b)

FLeq(a, b) == ~IsNaN(a) /\ ~IsNaN(b) /\ Rank(a) <= Rank(b)

\* the mutant of PackF32: the four bytes in big-endian order
PackF32BigEndian(f) ==
    LET k == f.exp * 2^23 + f.frac
    IN  << k \div 2^24 + 128 * f.sign, (k \div 65536) % 256,
           (k \div 256) % 256, k % 256 >>

\* struct.pack('<f', value)
PackF32(f) ==
    LET k == f.exp * 2^23 + f.frac
    IN  << k % 256, (k \div 256) % 256, (k \div 65536) % 256,
           k \div 2^24 + 128 * f.sign >>

\* struct.unpack('<f', b)[0] of four bytes
UnpackF32(b) ==
    F32(b[4] \div 128,
        (b[4] % 128) * 2 + b[3] \div 128,
        (b[3] % 128) * 65536 + b[2] * 256 + b[1])

\* read_float(data, pos); struct.unpack raises on fewer than four bytes
read_float(bytes, p) ==
    LET b == Slice(bytes, p, p + 4)
    IN  IF Len(b) # 4 THEN [ok |-> FALSE, val |-> F32(0, 0, 0)]
        ELSE [ok |-> TRUE, val |-> UnpackF32(b)]

\* the mutant of write_float: the bytes land one offset further
write_float_shifted(bytes, p, f) ==
    Slice(bytes, 0, p + 1) \o PackF32(f) \o Slice(bytes, p + 5, Len(bytes))

\* write_float(data, pos, value), pos >= 0: the slice assignment
\* data[pos:pos+4] = struct.pack('<f', value) replaces the bytes the slice
\* holds, which are fewer than four when it reaches past the end
write_float(bytes, p, f) ==
    Slice(bytes, 0, p) \o PackF32(f) \o Slice(bytes, p + 4, Len(bytes))

MaxBuffer == 6

BufferBytes == {0, 7}

\* the values written: 0, 1, 30, 150, 200, 400, 100000 and -150
PatchValues == {FromInt(n) : n \in {0, 1, 30, 150, 200, 400, 100000, -150}}

InitPatch ==
    /\ pc = "start"
    /\ tool = "editor"
    /\ data \in SeqsUpTo(BufferBytes, MaxBuffer)
    /\ data0 = data
    /\ pos \in 0..(Len(data) + 1)
    /\ fval \in PatchValues
    /\ disk = Idle /\ env = NoEnvelope /\ env0 = NoEnvelope
    /\ value = 0 /\ wire = Idle /\ readback = Idle
    /\ payload = Idle /\ start = 0 /\ blobs = Idle
    /\ editor = Idle /\ saved = Idle
    /\ source = Idle /\ report = Idle /\ stack = Idle

\* write_float(data, pos, value)
WriteFloat ==
    /\ pc = "start"
    /\ data' = write_float(data, pos, fval)
    /\ pc' = "written"
    /\ UNCHANGED <<tool, disk, env, env0, value, wire, readback, payload,
                   start, blobs, data0, pos, fval, editor, saved>>
    /\ UNCHANGED <<source, report, stack>>

\* hp = read_float(data, pos), on the patched buffer
ReadFloat ==
    /\ pc = "written"
    /\ LET r == read_float(data, pos)
       IN  IF r.ok THEN readback' = r.val /\ pc' = "read"
           ELSE readback' = readback /\ pc' = "raised"
    /\ UNCHANGED <<tool, disk, env, env0, value, wire, payload, start,
                   blobs, data, data0, pos, fval, editor, saved>>
    /\ UNCHANGED <<source, report, stack>>

NextPatch == WriteFloat \/ ReadFloat

SpecPatch == InitPatch /\ [][NextPatch]_vars

\* C9: after write_float at an offset with offset + 4 <= len(buffer), the
\* length of the buffer is unchanged, the four bytes at the offset are the
\* little-endian float32 encoding of the value (so that reading them gives
\* the value back), and every other byte is as before.
C9_PatchFrame ==
    (pc \in {"written", "read"} /\ pos + 4 <= Len(data0))
    => /\ Len(data) = Len(data0)
       /\ Slice(data, pos, pos + 4) = PackF32(fval)
       /\ \A i \in 1..Len(data0) : (i <= pos \/ i > pos + 4) => data[i] = data0[i]
       /\ pc = "read" => readback = fval
       /\ fval = FromInt(400) => Slice(data, pos, pos + 4) = << 0, 0, 200, 67 >>
       /\ fval = FromInt(-150) => Slice(data, pos, pos + 4) = << 0, 0, 22, 195 >>
       /\ fval = FromInt(100000) => Slice(data, pos, pos + 4) = << 0, 80, 195, 71 >>

\* 400.0 was written inside a buffer, with bytes before and after it
C9_Witness ==
    /\ pc = "read"
    /\ pos > 0 /\ pos + 4 < Len(data0)
    /\ fval = FromInt(400)
    /\ \E i \in 1..Len(data0) : data0[i] # 0

\* C10: write_float at an offset with offset + 4 > len(buffer) fails and
\* leaves the content and the length of the buffer as they were.
C10_OutOfBoundsRejected ==
    (pc # "start" /\ pos + 4 > Len(data0))
    => (pc = "raised" /\ data = data0 /\ Len(data) = Len(data0))

-----------------------------------------------------------------------------
(* the editor: load, scalar edits, save *)

\* decode_base64_file(filepath) -> (data, is_base64)
decode_base64_file(raw) ==
    LET is_base64 == \A i \in 1..Len(raw) : raw[i] \in B64CharsNL
        outer == IF is_base64 THEN b64decode(raw)
                 ELSE [ok |-> TRUE, val |-> raw]
    IN  [ok |-> outer.ok, data |-> outer.val, is_base64 |-> is_base64]

\* decode_nested_base64 gives up below this depth ("if depth > 5")
MaxNestedDepth == 5

RECURSIVE decode_nested_base64(_, _)
RECURSIVE ScanNested(_, _, _, _)

\* decode_nested_base64(data, depth): a buffer of base64 characters only is
\* decoded as a whole (a failing decode falls through to the marker scan)
decode_nested_base64(bytes, depth) ==
    IF depth > MaxNestedDepth THEN bytes
    ELSE LET whole == (\A i \in 1..Len(bytes) : bytes[i] \in B64CharsNL)
                      /\ b64decode(bytes).ok
         IN  IF whole
             THEN decode_nested_base64(b64decode(bytes).val, depth + 1)
             ELSE ScanNested(bytes, 0, depth, << >>)

\* decode_nested_base64, the loop "while pos < len(data)"
ScanNested(bytes, p, depth, result) ==
    IF p >= Len(bytes) THEN result
    ELSE LET idx == Find(bytes, NOCOMPRESSION, p)
             first == idx + Len(NOCOMPRESSION)
             end == RunEnd(bytes, first)
             before == result \o Slice(bytes, p, idx)
             run == b64decode(Slice(bytes, first, end))
         IN  IF idx = -1 THEN result \o Slice(bytes, p, Len(bytes))
             ELSE IF end > first THEN
                IF run.ok
                THEN ScanNested(bytes, end, depth,
                        before \o decode_nested_base64(run.val, depth + 1))
                ELSE ScanNested(bytes, end, depth,
                        before \o Slice(bytes, idx, end))
             ELSE ScanNested(bytes, end, depth,
                        before \o Slice(bytes, idx, first))

\* b'BuildingHealth'
Str_BuildingHealth ==
    << 66, 117, 105, 108, 100, 105, 110, 103, 72, 101, 97, 108, 116, 104 >>

\* b'_hp'
Str_hp == << 95, 104, 112 >>

\* value_pattern = b'\x4f\x04\x00\x00\xff\xff'
value_pattern == << 79, 4, 0, 0, 255, 255 >>

\* data.find(pat, from, to): the match must end at or before offset to
FindWithin(s, pat, from, to) ==
    Find(Slice(s, 0, to), pat, from)

\* _parse_buildings, one pass of "for pos in positions": the entry
\* appended for the occurrence at offset p, if any (the guid, a display
\* aid, is left out)
building_at(fd, p) ==
    LET context_start == Max(0, p - 50)
        context == Slice(fd, context_start, p + 200)
        hp_idx == Find(context, Str_hp, 0)
        hp_start == context_start + hp_idx
        val_idx == FindWithin(fd, value_pattern, hp_start, hp_start + 100)
        hp_pos == val_idx + Len(value_pattern)
        hp_value == read_float(fd, hp_pos)
    IN  IF hp_idx = -1 THEN << >>
        ELSE IF val_idx = -1 THEN << >>
        ELSE IF ~hp_value.ok THEN << >>
        ELSE IF FLess(FromInt(0), hp_value.val)
                /\ FLess(hp_value.val, FromInt(100000))
        THEN << [position |-> p, hp |-> hp_value.val, hp_offset |-> hp_pos] >>
        ELSE << >>

\* ForestSaveEditor._parse_buildings: self.buildings
parse_buildings(fd) ==
    LET positions == find_all(fd, Str_BuildingHealth)
    IN  Concat([i \in 1..Len(positions) |-> building_at(fd, positions[i])])

\* ForestSaveEditor.__init__ and _load
load_editor(raw) ==
    LET f == decode_base64_file(raw)
        fd == decode_nested_base64(f.data, 0)
    IN  [raw_data |-> raw,
         decoded_data |-> f.data,
         fully_decoded |-> fd,
         is_base64 |-> f.is_base64,
         buildings |-> parse_buildings(fd),
         modified |-> FALSE]

RECURSIVE SetEach(_, _, _, _)
\* the loop of set_all_building_hp and of repair_damaged_buildings: every
\* building whose position in the list is in hits is overwritten with new_hp
SetEach(ed, i, new_hp, hits) ==
    IF i > Len(ed.buildings) THEN ed
    ELSE IF i \in hits
    THEN SetEach([ed EXCEPT
                    !.fully_decoded =
                        write_float(@, ed.buildings[i].hp_offset, new_hp),
                    !.buildings[i].hp = new_hp],
                 i + 1, new_hp, hits)
    ELSE SetEach(ed, i + 1, new_hp, hits)

\* ForestSaveEditor.set_building_hp(index, new_hp)
set_building_hp(ed, index, new_hp) ==
    IF index < 0 \/ index >= Len(ed.buildings) THEN ed
    ELSE [ed EXCEPT
            !.fully_decoded =
                write_float(@, ed.buildings[index + 1].hp_offset, new_hp),
            !.buildings[index + 1].hp = new_hp,
            !.modified = TRUE]

\* ForestSaveEditor.set_all_building_hp(new_hp)
set_all_building_hp(ed, new_hp) ==
    [SetEach(ed, 1, new_hp, 1..Len(ed.buildings)) EXCEPT !.modified = TRUE]

RECURSIVE MaxHp(_, _)
\* max(b.hp for b in self.buildings), from the i-th building on
MaxHp(bs, i) ==
    IF i = Len(bs) THEN bs[i].hp
    ELSE LET rest == MaxHp(bs, i + 1)
         IN  IF FLess(bs[i].hp, rest) THEN rest ELSE bs[i].hp

\* heal_all_buildings: the first of 50, 100, 200, 400, 500 the largest hp
\* does not exceed, else that hp itself; 200 without buildings
heal_target(ed) ==
    IF Len(ed.buildings) = 0 THEN FromInt(200)
    ELSE LET max_hp == MaxHp(ed.buildings, 1)
             fits == {c \in {50, 100, 200, 400, 500} : FLeq(max_hp, FromInt(c))}
         IN  IF fits = {} THEN max_hp
             ELSE FromInt(CHOOSE c \in fits : \A d \in fits : c <= d)

\* ForestSaveEditor.heal_all_buildings()
heal_all_buildings(ed) == set_all_building_hp(ed, heal_target(ed))

\* the mutant of repair_damaged_buildings: every building is written,
\* whatever its hp
repair_every_building(ed, threshold, new_hp) ==
    [SetEach(ed, 1, new_hp, 1..Len(ed.buildings)) EXCEPT !.modified = TRUE]

\* ForestSaveEditor.repair_damaged_buildings(threshold, new_hp), new_hp
\* given; the number of buildings repaired is the number of entries changed
repair_damaged_buildings(ed, threshold, new_hp) ==
    LET damaged == {i \in 1..Len(ed.buildings) :
                        FLess(ed.buildings[i].hp, threshold)}
        done == SetEach(ed, 1, new_hp, damaged)
    IN  IF damaged # {} THEN [done EXCEPT !.modified = TRUE] ELSE done

\* ForestSaveEditor.save: the bytes written, when the marker is found
save_bytes(ed) ==
    LET nocomp_pos == Find(ed.decoded_data, NOCOMPRESSION, 0)
        header == Slice(ed.decoded_data, 0, nocomp_pos)
        new_decoded == header \o NOCOMPRESSION \o b64encode(ed.fully_decoded)
    IN  IF ed.is_base64 THEN b64encode(new_decoded) ELSE new_decoded

\* repair_damaged_buildings with new_hp left out: the largest hp, 200
\* without buildings
repair_default_hp(ed) ==
    IF Len(ed.buildings) = 0 THEN FromInt(200) ELSE MaxHp(ed.buildings, 1)

\* the save files edited: up to MaxBuildings pieces, a BuildingHealth entry
\* at 30 or 200 hp or an opaque byte, behind a header of no or one byte
MaxBuildings == 2

building_chunk(hp) ==
    Str_BuildingHealth \o Str_hp \o value_pattern \o PackF32(FromInt(hp))

EditorPieces == {building_chunk(30), building_chunk(200), << 2 >>}

EditorInners == {Concat(c) : c \in SeqsUpTo(EditorPieces, MaxBuildings)}

EditorHeaders == {<< >>, << 1 >>}

\* header + marker + base64, that once more in base64, and files without
\* the marker
EditorFiles ==
    LET plain == {h \o NOCOMPRESSION \o b64encode(i) :
                    h \in EditorHeaders, i \in EditorInners}
    IN  plain \cup {b64encode(f) : f \in plain}
              \cup {h \o i : h \in EditorHeaders, i \in EditorInners}

\* the hp values and the threshold the edits are called with
EditValues == {FromInt(0), FromInt(400)}

EditThresholds == {FromInt(50)}

InitEditor ==
    /\ pc = "start"
    /\ tool = "editor"
    /\ disk \in EditorFiles
    /\ editor = Idle /\ saved = Idle
    /\ env = NoEnvelope /\ env0 = NoEnvelope
    /\ value = 0 /\ wire = Idle /\ readback = Idle
    /\ payload = Idle /\ start = 0 /\ blobs = Idle
    /\ data = Idle /\ data0 = Idle /\ pos = 0 /\ fval = 0
    /\ source = Idle /\ report = Idle /\ stack = Idle

\* editor = ForestSaveEditor(filepath)
Load ==
    /\ pc = "start"
    /\ IF decode_base64_file(disk).ok
       THEN /\ editor' = load_editor(disk)
            /\ data0' = load_editor(disk).fully_decoded
            /\ pc' = "loaded"
       ELSE /\ pc' = "raised"
            /\ UNCHANGED <<editor, data0>>
    /\ UNCHANGED <<tool, disk, env, env0, value, wire, readback, payload,
                   start, blobs, data, pos, fval, saved>>
    /\ UNCHANGED <<source, report, stack>>

\* what a batch edit returns and does: count, the number of buildings it
\* wrote (the value returned), and the offsets it wrote at; hits are the
\* positions in the list of the buildings written
batch_outcome(ed, hits) ==
    [count |-> Cardinality(hits),
     written |-> {ed.buildings[i].hp_offset : i \in hits}]

\* set_all_building_hp: "if building.hp_offset is not None" holds for every
\* building _parse_buildings appended
set_all_hits(ed) == 1..Len(ed.buildings)

\* repair_damaged_buildings: "if building.hp < threshold and
\* building.hp_offset is not None"
repair_hits(ed, threshold) ==
    {i \in 1..Len(ed.buildings) : FLess(ed.buildings[i].hp, threshold)}

\* editor.set_building_hp(index, new_hp)
SetBuildingHp ==
    /\ pc = "loaded"
    /\ \E index \in -1..MaxBuildings, new_hp \in EditValues :
            /\ editor' = set_building_hp(editor, index, new_hp)
            /\ report' = [returned |-> index >= 0 /\ index < Len(editor.buildings)]
    /\ UNCHANGED <<pc, tool, disk, env, env0, value, wire, readback, payload,
                   start, blobs, data, data0, pos, fval, saved>>
    /\ UNCHANGED <<source, stack>>

\* count = editor.set_all_building_hp(new_hp)
SetAllBuildingHp ==
    /\ pc = "loaded"
    /\ \E new_hp \in EditValues :
            editor' = set_all_building_hp(editor, new_hp)
    /\ report' = batch_outcome(editor, set_all_hits(editor))
    /\ UNCHANGED <<pc, tool, disk, env, env0, value, wire, readback, payload,
                   start, blobs, data, data0, pos, fval, saved>>
    /\ UNCHANGED <<source, stack>>

\* count = editor.heal_all_buildings()
HealAllBuildings ==
    /\ pc = "loaded"
    /\ editor' = heal_all_buildings(editor)
    /\ report' = batch_outcome(editor, set_all_hits(editor))
    /\ UNCHANGED <<pc, tool, disk, env, env0, value, wire, readback, payload,
                   start, blobs, data, data0, pos, fval, saved>>
    /\ UNCHANGED <<source, stack>>

\* count = editor.repair_damaged_buildings(threshold, new_hp), with and
\* without new_hp
RepairDamagedBuildings ==
    /\ pc = "loaded"
    /\ \E threshold \in EditThresholds,
          new_hp \in EditValues \cup {repair_default_hp(editor)} :
            /\ editor' = repair_damaged_buildings(editor, threshold, new_hp)
            /\ report' = batch_outcome(editor, repair_hits(editor, threshold))
    /\ UNCHANGED <<pc, tool, disk, env, env0, value, wire, readback, payload,
                   start, blobs, data, data0, pos, fval, saved>>
    /\ UNCHANGED <<source, stack>>

\* the mutant of Save: the file is written and the flag cleared whether the
\* marker is found or not
SaveUnmarked ==
    /\ pc = "loaded"
    /\ editor.modified
    /\ disk' = save_bytes(editor)
    /\ editor' = [editor EXCEPT !.modified = FALSE]
    /\ saved' = editor.fully_decoded
    /\ pc' = "saved"
    /\ UNCHANGED <<tool, env, env0, value, wire, readback, payload,
                   start, blobs, data, data0, pos, fval>>
    /\ UNCHANGED <<source, report, stack>>

\* editor.save(): returns at once when nothing was modified; writes nothing
\* when decoded_data holds no marker
Save ==
    /\ pc = "loaded"
    /\ editor.modified
    /\ IF Find(editor.decoded_data, NOCOMPRESSION, 0) # -1
       THEN /\ disk' = save_bytes(editor)
            /\ editor' = [editor EXCEPT !.modified = FALSE]
            /\ saved' = editor.fully_decoded
            /\ pc' = "saved"
       ELSE /\ pc' = "save_failed"
            /\ UNCHANGED <<disk, editor, saved>>
    /\ UNCHANGED <<tool, env, env0, value, wire, readback, payload,
                   start, blobs, data, data0, pos, fval>>
    /\ UNCHANGED <<source, report, stack>>

\* ForestSaveEditor(filepath) on the file save() wrote
Reload ==
    /\ pc = "saved"
    /\ IF decode_base64_file(disk).ok
       THEN editor' = load_editor(disk) /\ pc' = "reloaded"
       ELSE editor' = editor /\ pc' = "reload_raised"
    /\ UNCHANGED <<tool, disk, env, env0, value, wire, readback, payload,
                   start, blobs, data, data0, pos, fval, saved>>
    /\ UNCHANGED <<source, report, stack>>

NextEditor ==
    \/ Load
    \/ SetBuildingHp
    \/ SetAllBuildingHp
    \/ HealAllBuildings
    \/ RepairDamagedBuildings
    \/ Save
    \/ Reload

SpecEditor == InitEditor /\ [][NextEditor]_vars

\* C3: once an edit has changed the buffer and save() has written the file
\* (which takes the marker in what was loaded), loading the saved file gives
\* a fully decoded buffer with the length and the bytes of the editor's
\* buffer at the save.
C3_LosslessSave ==
    (pc \in {"reloaded", "reload_raised"} /\ saved # data0)
    => /\ pc = "reloaded"
       /\ Len(editor.fully_decoded) = Len(saved)
       /\ editor.fully_decoded = saved

-----------------------------------------------------------------------------
(* forest_swap_v2: the outer header, the player blobs and the swap *)

\* bytes.decode('utf-8'), strict: a byte that starts no valid sequence
\* raises UnicodeDecodeError (multi-byte sequences do not occur in the
\* payloads drawn below)
Utf8Strict(bytes) ==
    [ok |-> \A i \in 1..Len(bytes) : bytes[i] < 128, str |-> bytes]

HeaderFailed(why) ==
    [ok |-> FALSE, why |-> why, pos |-> 0, version |-> << >>,
     types |-> << >>, properties |-> << >>]

RECURSIVE ReadNames(_, _, _, _)
\* parse_header: "for _ in range(count)": a 7-bit length, then the name; the
\* slice of a name is cut at the end of the data without an error
ReadNames(bytes, p, n, acc) ==
    IF n = 0 THEN [ok |-> TRUE, why |-> "", pos |-> p, names |-> acc]
    ELSE LET r == read_7bit_int(bytes, p)
             name == Utf8Strict(Slice(bytes, r.pos, r.pos + r.value))
         IN  IF ~r.ok
             THEN [ok |-> FALSE, why |-> "IndexError", pos |-> p, names |-> acc]
             ELSE IF ~name.ok
             THEN [ok |-> FALSE, why |-> "UnicodeDecodeError", pos |-> p,
                   names |-> acc]
             ELSE ReadNames(bytes, r.pos + r.value, n - 1,
                            Append(acc, name.str))

\* forest_swap_v2.parse_header(data) -> (data_start, types, properties);
\* the version string is read and not looked at again
parse_header(bytes) ==
    LET v == read_7bit_int(bytes, 0)
        version == Utf8Strict(Slice(bytes, v.pos, v.pos + v.value))
        at == v.pos + v.value + 1
        tcnt == Slice(bytes, at, at + 4)
        types == ReadNames(bytes, at + 4, U32LE(tcnt), << >>)
        pcnt == Slice(bytes, types.pos, types.pos + 4)
        props == ReadNames(bytes, types.pos + 4, U32LE(pcnt), << >>)
    IN  IF ~v.ok THEN HeaderFailed("IndexError")
        ELSE IF ~version.ok THEN HeaderFailed("UnicodeDecodeError")
        ELSE IF Len(tcnt) # 4 THEN HeaderFailed("struct.error")
        ELSE IF ~types.ok THEN HeaderFailed(types.why)
        ELSE IF Len(pcnt) # 4 THEN HeaderFailed("struct.error")
        ELSE IF ~props.ok THEN HeaderFailed(props.why)
        ELSE [ok |-> TRUE, why |-> "", pos |-> props.pos,
              version |-> version.str, types |-> types.names,
              properties |-> props.names]

\* Blob.is_player_data: player_types
player_types == <<
    << 73, 110, 118, 101, 110, 116, 111, 114, 121, 73, 116, 101, 109, 86,
       105, 101, 119 >>,
    << 68, 101, 99, 97, 121, 105, 110, 103, 73, 110, 118, 101, 110, 116,
       111, 114, 121, 73, 116, 101, 109, 86, 105, 101, 119 >>,
    << 77, 97, 112, 73, 110, 118, 101, 110, 116, 111, 114, 121, 73, 116,
       101, 109, 86, 105, 101, 119 >>,
    << 87, 97, 116, 101, 114, 83, 107, 105, 110, 73, 110, 118, 101, 110,
       116, 111, 114, 121, 73, 116, 101, 109, 86, 105, 101, 119 >>,
    << 82, 111, 98, 111, 116, 73, 110, 118, 101, 110, 116, 111, 114, 121,
       73, 116, 101, 109, 86, 105, 101, 119 >>,
    << 68, 114, 97, 119, 105, 110, 103, 115, 73, 110, 118, 101, 110, 116,
       111, 114, 121, 73, 116, 101, 109, 86, 105, 101, 119 >>,
    << 85, 112, 103, 114, 97, 100, 101, 86, 105, 101, 119, 82, 101, 99,
       101, 105, 118, 101, 114 >>,
    << 83, 117, 114, 118, 105, 118, 97, 108, 66, 111, 111, 107, 66, 101,
       115, 116, 105, 97, 114, 121 >>,
    << 83, 117, 114, 118, 105, 118, 97, 108, 66, 111, 111, 107, 84, 111,
       100, 111 >>,
    << 73, 116, 101, 109, 83, 116, 111, 114, 97, 103, 101 >>,
    << 65, 99, 116, 105, 118, 101, 65, 114, 101, 97, 73, 110, 102, 111 >>,
    << 72, 101, 108, 100, 73, 116, 101, 109, 115, 68, 97, 116, 97 >>,
    << 84, 105, 99, 107, 79, 102, 102, 83, 121, 115, 116, 101, 109 >>,
    << 80, 97, 115, 115, 101, 110, 103, 101, 114, 77, 97, 110, 105, 102,
       101, 115, 116 >>,
    << 80, 108, 97, 121, 101, 114, 67, 108, 111, 116, 104, 105, 110,
       103 >>,
    << 80, 108, 97, 121, 101, 114, 83, 116, 97, 116, 115 >>,
    << 67, 97, 118, 101, 77, 97, 112, 68, 114, 97, 119, 101, 114 >>,
    << 87, 97, 108, 107, 109, 97, 110, 67, 111, 110, 116, 114, 111, 108,
       101, 114 >>,
    << 76, 111, 103, 67, 111, 110, 116, 114, 111, 108, 101, 114 >>,
    << 65, 99, 104, 105, 101, 118, 101, 109, 101, 110, 116, 115, 77, 97,
       110, 97, 103, 101, 114 >>
    >>

\* Blob.short_type: primary_type.split('.')[-1]
short_type(b) ==
    LET name == primary_type(b)
        dots == {i \in 1..Len(name) : name[i] = 46}
        last == IF dots = {} THEN 0
                ELSE CHOOSE i \in dots : \A j \in dots : j <= i
    IN  SubSeq(name, last + 1, Len(name))

\* Blob.is_player_data()
is_player_data(b) ==
    \E k \in 1..Len(player_types) : Contains(primary_type(b), player_types[k])

\* swap_player_data: cs_by_type[t], the CS player blobs of short type t in
\* the order of the file
cs_by_type(cs_player, t) ==
    SelectSeq(cs_player, LAMBDA b : short_type(b) = t)

\* the mutant of rebuild_step: a world blob is left out of the output
rebuild_step_no_world(blob, cs_player, st) ==
    LET t == short_type(blob)
        mine == cs_by_type(cs_player, t)
        used == IF t \in DOMAIN st.cs_used THEN st.cs_used[t] ELSE 0
    IN  IF is_player_data(blob) THEN
            IF Len(mine) > 0 /\ used < Len(mine)
            THEN [st EXCEPT !.parts = Append(@, mine[used + 1].data),
                            !.cs_used[t] = used + 1,
                            !.replacements = @ + 1,
                            !.replaced = Append(@, TRUE)]
            ELSE [st EXCEPT !.parts = Append(@, blob.data),
                            !.kept_original = @ + 1,
                            !.replaced = Append(@, FALSE)]
        ELSE [st EXCEPT !.replaced = Append(@, FALSE)]

\* the mutant of rebuild_step: cs_used is never advanced
rebuild_step_reuse(blob, cs_player, st) ==
    LET mine == cs_by_type(cs_player, short_type(blob))
    IN  IF is_player_data(blob) THEN
            IF Len(mine) > 0
            THEN [st EXCEPT !.parts = Append(@, mine[1].data),
                            !.replacements = @ + 1,
                            !.replaced = Append(@, TRUE)]
            ELSE [st EXCEPT !.parts = Append(@, blob.data),
                            !.kept_original = @ + 1,
                            !.replaced = Append(@, FALSE)]
        ELSE [st EXCEPT !.parts = Append(@, blob.data),
                        !.replaced = Append(@, FALSE)]

\* the mutant of rebuild_step: the CS player blobs are taken in their order
\* whatever their type
rebuild_step_any_type(blob, cs_player, st) ==
    LET used == st.replacements
    IN  IF is_player_data(blob) THEN
            IF used < Len(cs_player)
            THEN [st EXCEPT !.parts = Append(@, cs_player[used + 1].data),
                            !.replacements = @ + 1,
                            !.replaced = Append(@, TRUE)]
            ELSE [st EXCEPT !.parts = Append(@, blob.data),
                            !.kept_original = @ + 1,
                            !.replaced = Append(@, FALSE)]
        ELSE [st EXCEPT !.parts = Append(@, blob.data),
                        !.replaced = Append(@, FALSE)]

\* the mutant of rebuild_step: the CS blobs of a type are taken from the
\* last one backwards
rebuild_step_from_last(blob, cs_player, st) ==
    LET t == short_type(blob)
        mine == cs_by_type(cs_player, t)
        used == IF t \in DOMAIN st.cs_used THEN st.cs_used[t] ELSE 0
    IN  IF is_player_data(blob) THEN
            IF Len(mine) > 0 /\ used < Len(mine)
            THEN [st EXCEPT !.parts = Append(@, mine[Len(mine) - used].data),
                            !.cs_used[t] = used + 1,
                            !.replacements = @ + 1,
                            !.replaced = Append(@, TRUE)]
            ELSE [st EXCEPT !.parts = Append(@, blob.data),
                            !.kept_original = @ + 1,
                            !.replaced = Append(@, FALSE)]
        ELSE [st EXCEPT !.parts = Append(@, blob.data),
                        !.replaced = Append(@, FALSE)]

\* the mutant of rebuild_step: the CS blob is put in front of the target
\* blob instead of in its place
rebuild_step_inserted(blob, cs_player, st) ==
    LET t == short_type(blob)
        mine == cs_by_type(cs_player, t)
        used == IF t \in DOMAIN st.cs_used THEN st.cs_used[t] ELSE 0
    IN  IF is_player_data(blob) THEN
            IF Len(mine) > 0 /\ used < Len(mine)
            THEN [st EXCEPT !.parts = Append(@, mine[used + 1].data \o blob.data),
                            !.cs_used[t] = used + 1,
                            !.replacements = @ + 1,
                            !.replaced = Append(@, TRUE)]
            ELSE [st EXCEPT !.parts = Append(@, blob.data),
                            !.kept_original = @ + 1,
                            !.replaced = Append(@, FALSE)]
        ELSE [st EXCEPT !.parts = Append(@, blob.data),
                        !.replaced = Append(@, FALSE)]

\* swap_player_data, the body of "for blob in resume_blobs": st holds
\* new_inner_parts (after outer_header and prefix), cs_used, replacements,
\* kept_original and, for each blob so far, whether it was replaced
rebuild_step(blob, cs_player, st) ==
    LET t == short_type(blob)
        mine == cs_by_type(cs_player, t)
        used == IF t \in DOMAIN st.cs_used THEN st.cs_used[t] ELSE 0
    IN  IF is_player_data(blob) THEN
            IF Len(mine) > 0 /\ used < Len(mine)
            THEN [st EXCEPT !.parts = Append(@, mine[used + 1].data),
                            !.cs_used[t] = used + 1,
                            !.replacements = @ + 1,
                            !.replaced = Append(@, TRUE)]
            ELSE [st EXCEPT !.parts = Append(@, blob.data),
                            !.kept_original = @ + 1,
                            !.replaced = Append(@, FALSE)]
        ELSE [st EXCEPT !.parts = Append(@, blob.data),
                        !.replaced = Append(@, FALSE)]

RECURSIVE rebuild_loop(_, _, _, _)
\* "for blob in resume_blobs", from the i-th blob on
rebuild_loop(resume_blobs, i, cs_player, st) ==
    IF i > Len(resume_blobs) THEN st
    ELSE With(rebuild_step(resume_blobs[i], cs_player, st),
              LAMBDA next : rebuild_loop(resume_blobs, i + 1, cs_player, next))

\* swap_player_data, from the parsed headers to new_inner
rebuild_inner(resume_inner, resume_data_start, cs_inner, cs_data_start) ==
    With(find_blobs(resume_inner, resume_data_start), LAMBDA resume_blobs :
    With(SelectSeq(find_blobs(cs_inner, cs_data_start), is_player_data),
         LAMBDA cs_player :
    With(rebuild_loop(resume_blobs, 1, cs_player,
            [parts |-> << >>,
             cs_used |-> [x \in {short_type(cs_player[k]) :
                                    k \in 1..Len(cs_player)} |-> 0],
             replacements |-> 0, kept_original |-> 0, replaced |-> << >>]),
         LAMBDA st :
        LET outer_header == Slice(resume_inner, 0, resume_data_start)
            prefix_end == IF Len(resume_blobs) > 0 THEN resume_blobs[1].offset
                          ELSE Len(resume_inner)
            prefix == Slice(resume_inner, resume_data_start, prefix_end)
        IN  [outer_header |-> outer_header,
             prefix |-> prefix,
             parts |-> st.parts,
             replaced |-> st.replaced,
             cs_used |-> st.cs_used,
             replacements |-> st.replacements,
             kept_original |-> st.kept_original,
             new_inner |-> outer_header \o prefix \o Concat(st.parts)])))

\* analyze_file(path, "resume"): the counts swap_player_data returns after
\* it has written the file
analyze_file(raw) ==
    With(decode_resume_v2(raw), LAMBDA e :
    With(parse_header(e.inner), LAMBDA h :
    With(find_blobs(e.inner, h.pos), LAMBDA found :
        LET players == Len(SelectSeq(found, is_player_data))
        IN  IF e.status # "ok" THEN [ok |-> FALSE, why |-> e.status]
            ELSE IF ~h.ok THEN [ok |-> FALSE, why |-> h.why]
            ELSE [ok |-> TRUE, why |-> "",
                  blob_count |-> Len(found),
                  player_blobs |-> players,
                  world_blobs |-> Len(found) - players])))

-----------------------------------------------------------------------------
(* swapping the player blobs of a CS file into a __RESUME__ file *)

MaxTargetBlobs == 2

MaxSourceBlobs == 1

\* the outer header: "SerV10", the null byte, no types and no properties
OuterHeader == SerV10Marker \o << 0, 0, 0, 0, 0, 0, 0, 0, 0 >>

\* a blob with one type, the given name, and one byte of content
typed_blob(name, content) ==
    SerV10Marker \o << 0, 1, 0, 0, 0, Len(name) >> \o name \o << content >>

\* "PlayerStats", "C.PlayerStats", "A.ItemStorage", "B.Tree"
Name_PlayerStats == << 80, 108, 97, 121, 101, 114, 83, 116, 97, 116, 115 >>

Name_C_PlayerStats == << 67, 46, 80, 108, 97, 121, 101, 114, 83, 116, 97, 116, 115 >>

Name_A_ItemStorage ==
    << 65, 46, 73, 116, 101, 109, 83, 116, 111, 114, 97, 103, 101 >>

Name_B_Tree == << 66, 46, 84, 114, 101, 101 >>

\* the blobs of the __RESUME__ payload: two player types, a world blob and
\* a bare marker, which find_blobs cannot parse
TargetPieces ==
    {typed_blob(Name_PlayerStats, 1), typed_blob(Name_A_ItemStorage, 1),
     typed_blob(Name_B_Tree, 1), SerV10Marker}

\* the blobs of the CS file: the same short types under other bytes, one
\* short type twice with different content
SourcePieces ==
    {typed_blob(Name_C_PlayerStats, 2), typed_blob(Name_PlayerStats, 3),
     typed_blob(Name_A_ItemStorage, 2), typed_blob(Name_B_Tree, 2)}

\* payloads: the header, no or one prefix byte, the blobs; and one payload
\* that ends inside its header
TargetPayloads ==
    {OuterHeader \o pre \o Concat(c) :
        pre \in {<< >>, << 9 >>}, c \in SeqsUpTo(TargetPieces, MaxTargetBlobs)}
    \cup {<< 6 >>}

\* CS files with two player blobs of one short type, in both orders
OrderedSources ==
    {OuterHeader \o typed_blob(Name_C_PlayerStats, 2)
                 \o typed_blob(Name_PlayerStats, 3),
     OuterHeader \o typed_blob(Name_PlayerStats, 3)
                 \o typed_blob(Name_C_PlayerStats, 2)}

SourcePayloads ==
    {OuterHeader \o Concat(c) : c \in SeqsUpTo(SourcePieces, MaxSourceBlobs)}
    \cup OrderedSources \cup {<< 6 >>}

\* the __RESUME__ file: a byte outside the base64 alphabet, the marker and
\* the payload in base64
ResumeFiles == {<< 1 >> \o NOCOMPRESSION \o b64encode(p) : p \in TargetPayloads}

InitSwap ==
    /\ pc = "start"
    /\ tool = "v2"
    /\ disk \in ResumeFiles
    /\ source \in SourcePayloads
    /\ env = NoEnvelope /\ env0 = NoEnvelope
    /\ value = 0 /\ wire = Idle /\ readback = Idle
    /\ payload = Idle /\ start = 0 /\ blobs = Idle
    /\ data = Idle /\ data0 = Idle /\ pos = 0 /\ fval = 0
    /\ editor = Idle /\ saved = Idle
    /\ report = Idle /\ stack = Idle

\* swap_player_data(resume_path, cs_path): decode, parse both headers,
\* rebuild, encode, write, and analyze the written file
SwapPlayerData ==
    /\ pc = "start"
    /\ \E e \in {decode_resume_v2(disk)} :
       \E rh \in {parse_header(e.inner)}, ch \in {parse_header(source)} :
       \E r \in {rebuild_inner(e.inner, rh.pos, source, ch.pos)} :
       \E final \in {encode_resume_v2(e.header, r.new_inner, e.is_base64)} :
       \E verify_result \in {analyze_file(final)} :
           IF e.status # "ok" \/ ~rh.ok \/ ~ch.ok
           THEN /\ pc' = "raised"
                /\ UNCHANGED <<disk, env, payload, start, report, blobs>>
           ELSE /\ env' = e
                /\ payload' = e.inner
                /\ start' = rh.pos
                /\ disk' = final
                /\ report' = [swap |-> r, verify_result |-> verify_result]
                /\ blobs' = [target |-> find_blobs(e.inner, rh.pos),
                             source_player |->
                                SelectSeq(find_blobs(source, ch.pos),
                                          is_player_data),
                             output |->
                                find_blobs(r.new_inner,
                                           parse_header(r.new_inner).pos)]
                /\ pc' = IF verify_result.ok THEN "swapped"
                         ELSE "verify_raised"
    /\ UNCHANGED <<tool, env0, value, wire, readback, data, data0,
                   pos, fval, editor, saved, source,
                   stack>>

NextSwap == SwapPlayerData

SpecSwap == InitSwap /\ [][NextSwap]_vars

\* the blobs of the __RESUME__ payload, of the CS file and of the output
\* (as the swap found them: find_blobs(resume_inner, resume_data_start),
\* the player blobs of find_blobs(cs_inner, cs_data_start), and the blobs
\* find_blobs finds in new_inner)
TargetBlobs == blobs.target

SourcePlayerBlobs == blobs.source_player

OutputBlobs == blobs.output

IsWorld(b) == ~is_player_data(b)

BytesOf(bs) == [i \in 1..Len(bs) |-> bs[i].data]

\* the bytes between the outer header and the first blob
PrefixOf(s, from) ==
    LET bs == find_blobs(s, from)
    IN  Slice(s, from, IF Len(bs) > 0 THEN bs[1].offset ELSE Len(s))

Swapped == pc \in {"swapped", "verify_raised"}

\* C11: the non-player blobs of the output are the non-player blobs of the
\* target, byte for byte and in the same order, and the outer header and
\* the prefix before the first blob are those of the target.
C11_Conservation ==
    Swapped =>
        LET new == report.swap.new_inner
            nh == parse_header(new)
        IN  /\ nh.ok /\ nh.pos = start
            /\ Slice(new, 0, start) = Slice(payload, 0, start)
            /\ PrefixOf(new, start) = PrefixOf(payload, start)
            /\ BytesOf(SelectSeq(OutputBlobs, IsWorld))
                    = BytesOf(SelectSeq(TargetBlobs, IsWorld))
            /\ Len(OutputBlobs) = Len(TargetBlobs)

\* a swap that replaced a player blob by a longer one, ahead of a world
\* blob and behind a prefix byte
C11_Witness ==
    /\ pc = "swapped"
    /\ PrefixOf(payload, start) # << >>
    /\ \E i, j \in 1..Len(TargetBlobs) :
            /\ i < j
            /\ report.swap.replaced[i]
            /\ Len(report.swap.parts[i]) # Len(TargetBlobs[i].data)
            /\ IsWorld(TargetBlobs[j])

\* the positions in the blob sequence bs of the player blobs of short type t
PlayersOfType(bs, t) ==
    {i \in 1..Len(bs) : is_player_data(bs[i]) /\ short_type(bs[i]) = t}

\* the positions of the target blobs the swap replaced
ReplacedOfType(t) ==
    {i \in 1..Len(TargetBlobs) :
        report.swap.replaced[i] /\ short_type(TargetBlobs[i]) = t}

ShortTypes(bs) == {short_type(bs[i]) : i \in 1..Len(bs)}

\* C12: of every short type, no more target blobs are replaced than the
\* target has player blobs and the source has player blobs of that type,
\* and replacements + kept_original is the number of target player blobs.
C12_CountBound ==
    Swapped =>
        /\ \A t \in ShortTypes(TargetBlobs) \cup ShortTypes(SourcePlayerBlobs) :
            /\ Cardinality(ReplacedOfType(t))
                    <= Cardinality(PlayersOfType(TargetBlobs, t))
            /\ Cardinality(ReplacedOfType(t))
                    <= Cardinality(PlayersOfType(SourcePlayerBlobs, t))
        /\ report.swap.replacements
                = Cardinality({i \in 1..Len(TargetBlobs) : report.swap.replaced[i]})
        /\ report.swap.replacements + report.swap.kept_original
                = Len(SelectSeq(TargetBlobs, is_player_data))

\* the target has two player blobs of one type and the source one: one is
\* replaced, one kept
C12_Witness ==
    /\ pc = "swapped"
    /\ report.swap.replacements > 0
    /\ \E i, j \in 1..Len(TargetBlobs) :
            /\ i < j
            /\ short_type(TargetBlobs[i]) = short_type(TargetBlobs[j])
            /\ report.swap.replaced[i]
            /\ is_player_data(TargetBlobs[j]) /\ ~report.swap.replaced[j]

\* C13: a target blob whose short type no player blob of the source has is
\* in the output with its own bytes at its own place in the sequence, and
\* is not counted as replaced.
C13_NoSourceNoChange ==
    Swapped =>
        \A i \in 1..Len(TargetBlobs) :
            PlayersOfType(SourcePlayerBlobs, short_type(TargetBlobs[i])) = {}
            => /\ ~report.swap.replaced[i]
               /\ report.swap.parts[i] = TargetBlobs[i].data
               /\ i <= Len(OutputBlobs)
               /\ OutputBlobs[i].data = TargetBlobs[i].data

\* a player blob without a source blob of its type stays, behind a player
\* blob that was replaced by a longer one
C13_Witness ==
    /\ pc = "swapped"
    /\ \E i, j \in 1..Len(TargetBlobs) :
            /\ i < j
            /\ report.swap.replaced[i]
            /\ Len(report.swap.parts[i]) # Len(TargetBlobs[i].data)
            /\ is_player_data(TargetBlobs[j])
            /\ PlayersOfType(SourcePlayerBlobs, short_type(TargetBlobs[j])) = {}

\* the place of the target player blob i among the target player blobs of
\* its short type
RankInType(i) ==
    Cardinality({j \in PlayersOfType(TargetBlobs, short_type(TargetBlobs[i])) :
                    j <= i})

\* C23: walking the target blobs in their order, the k-th target player
\* blob of short type t is replaced by the k-th source player blob of type
\* t, in source order, exactly when the source has at least k blobs of that
\* type (so no source blob is used twice), and the output has one blob at
\* the place of each target blob.
C23_KthForKth ==
    Swapped =>
        /\ Len(report.swap.parts) = Len(TargetBlobs)
        /\ Len(OutputBlobs) = Len(TargetBlobs)
        /\ \A i \in 1..Len(TargetBlobs) :
              /\ OutputBlobs[i].data = report.swap.parts[i]
              /\ is_player_data(TargetBlobs[i]) =>
                    LET src == cs_by_type(SourcePlayerBlobs,
                                          short_type(TargetBlobs[i]))
                        k == RankInType(i)
                    IN  IF Len(src) >= k
                        THEN /\ report.swap.replaced[i]
                             /\ report.swap.parts[i] = src[k].data
                        ELSE /\ ~report.swap.replaced[i]
                             /\ report.swap.parts[i] = TargetBlobs[i].data

\* two target player blobs of one short type were replaced by two
\* different source blobs of that type
C23_Witness ==
    /\ pc = "swapped"
    /\ \E i, j \in 1..Len(TargetBlobs) :
            /\ i < j
            /\ short_type(TargetBlobs[i]) = short_type(TargetBlobs[j])
            /\ report.swap.replaced[i] /\ report.swap.replaced[j]
            /\ report.swap.parts[i] # report.swap.parts[j]

\* the number of player blobs among bs
PlayerCount(bs) == Len(SelectSeq(bs, is_player_data))

\* C24: parsing the output of the swap again gives the payload offset, the
\* number of blobs and the numbers of player and non-player blobs that the
\* target had, in new_inner and in the counts analyze_file returns for the
\* written file.
C24_TopologyKept ==
    pc = "swapped" =>
        /\ parse_header(report.swap.new_inner).ok
        /\ parse_header(report.swap.new_inner).pos = start
        /\ Len(OutputBlobs) = Len(TargetBlobs)
        /\ PlayerCount(OutputBlobs) = PlayerCount(TargetBlobs)
        /\ report.verify_result.blob_count = Len(TargetBlobs)
        /\ report.verify_result.player_blobs = PlayerCount(TargetBlobs)
        /\ report.verify_result.world_blobs
                = Len(TargetBlobs) - PlayerCount(TargetBlobs)

\* a swap that replaced a player blob by one of another length, with a
\* world blob and a player blob in the target
C24_Witness ==
    /\ pc = "swapped"
    /\ report.swap.replacements > 0
    /\ Len(report.swap.new_inner) # Len(payload)
    /\ PlayerCount(TargetBlobs) > 0
    /\ PlayerCount(TargetBlobs) < Len(TargetBlobs)

-----------------------------------------------------------------------------
(* the version string of the outer header *)

\* "SerV10"
Str_SerV10 == << 83, 101, 114, 86, 49, 48 >>

RECURSIVE ReadStrings_unity(_, _, _, _)
\* BinaryReader.read_type_list / read_property_list, after the count: the
\* strings and the position of the reader behind them
ReadStrings_unity(bytes, p, n, acc) ==
    IF n = 0 THEN [ok |-> TRUE, pos |-> p, names |-> acc]
    ELSE LET r == read_length_prefixed_string(bytes, p)
         IN  IF ~r.ok THEN [ok |-> FALSE, pos |-> p, names |-> acc]
             ELSE ReadStrings_unity(bytes, r.pos, n - 1, Append(acc, r.str))

Deserialized(status, version, items) ==
    [status |-> status, version |-> version, items |-> items]

\* UnitySerializer(data).deserialize(): the version, then the type and the
\* property list, then the stored items found behind them
deserialize(bytes) ==
    LET v == read_length_prefixed_string(bytes, 0)
        tcnt == Slice(bytes, v.pos + 1, v.pos + 5)
        types == ReadStrings_unity(bytes, v.pos + 5, U32LE(tcnt), << >>)
        pcnt == Slice(bytes, types.pos, types.pos + 4)
        props == ReadStrings_unity(bytes, types.pos + 4, U32LE(pcnt), << >>)
    IN  IF ~v.ok THEN Deserialized("IndexError", << >>, << >>)
        ELSE IF v.pos >= Len(bytes)
        THEN Deserialized("IndexError", << >>, << >>)
        ELSE IF v.str # Str_SerV10
        THEN Deserialized("UnsupportedVersion", v.str, << >>)
        ELSE IF Len(tcnt) # 4 THEN Deserialized("struct.error", v.str, << >>)
        ELSE IF ~types.ok THEN Deserialized("IndexError", v.str, << >>)
        ELSE IF Len(pcnt) # 4 THEN Deserialized("struct.error", v.str, << >>)
        ELSE IF ~props.ok THEN Deserialized("IndexError", v.str, << >>)
        ELSE Deserialized("ok", v.str,
                          parse_level_data_heuristic(bytes, props.pos))

\* the headers parsed: a version, the null byte, up to MaxNames types and
\* up to MaxNames properties of one letter, then one blob; and every
\* beginning of such a payload
MaxNames == 1

\* "SerV10", "SerV11", "SerV9" and the empty string
Versions ==
    {Str_SerV10, << 83, 101, 114, 86, 49, 49 >>, << 83, 101, 114, 86, 57 >>, << >>}

name_list(n) ==
    << n, 0, 0, 0 >> \o Concat([i \in 1..n |-> << 1, 76 >>])

FullHeaders ==
    {<< Len(v) >> \o v \o << 0 >> \o name_list(i) \o name_list(j) \o BlobUntyped :
        v \in Versions, i \in 0..MaxNames, j \in 0..MaxNames}

HeaderPayloads ==
    UNION {{Slice(h, 0, n) : n \in 0..Len(h)} : h \in FullHeaders}

InitHeader ==
    /\ pc = "start"
    /\ tool \in {"v2", "unity"}
    /\ payload \in HeaderPayloads
    /\ disk = Idle /\ env = NoEnvelope /\ env0 = NoEnvelope
    /\ value = 0 /\ wire = Idle /\ readback = Idle
    /\ start = 0 /\ blobs = Idle
    /\ data = Idle /\ data0 = Idle /\ pos = 0 /\ fval = 0
    /\ editor = Idle /\ saved = Idle
    /\ source = Idle /\ report = Idle /\ stack = Idle

\* data_start, types, properties = parse_header(inner)
ParseHeader ==
    /\ pc = "start"
    /\ tool = "v2"
    /\ \E h \in {parse_header(payload)} :
            /\ report' = [status |-> IF h.ok THEN "ok" ELSE h.why,
                          version |-> h.version]
            /\ start' = h.pos
    /\ pc' = "parsed"
    /\ UNCHANGED <<tool, disk, env, env0, value, wire, readback, payload,
                   blobs, data, data0, pos, fval, editor, saved, source,
                   stack>>

\* level_data = UnitySerializer(data).deserialize()
Deserialize ==
    /\ pc = "start"
    /\ tool = "unity"
    /\ \E d \in {deserialize(payload)} :
            /\ report' = [status |-> d.status, version |-> d.version]
            /\ blobs' = d.items
    /\ pc' = "parsed"
    /\ UNCHANGED <<tool, disk, env, env0, value, wire, readback, payload,
                   start, data, data0, pos, fval, editor, saved, source,
                   stack>>

NextHeader == ParseHeader \/ Deserialize

SpecHeader == InitHeader /\ [][NextHeader]_vars

\* the payload starts with a whole version string and its null byte
HasVersion(bytes) ==
    /\ Len(bytes) >= 1
    /\ bytes[1] < 128
    /\ Len(bytes) >= 1 + bytes[1] + 1

VersionOf(bytes) == SubSeq(bytes, 2, 1 + bytes[1])

\* C14: a payload whose version string is not "SerV10" is refused with
\* UnsupportedVersion, and a header is returned only for "SerV10".
C14_VersionChecked ==
    pc = "parsed" =>
        /\ (HasVersion(payload) /\ VersionOf(payload) # Str_SerV10)
                => report.status = "UnsupportedVersion"
        /\ report.status = "ok" => VersionOf(payload) = Str_SerV10

-----------------------------------------------------------------------------
(* player objects and world objects *)

\* forest_player_swap.is_player_object: player_types
ps_player_types == <<
    << 73, 110, 118, 101, 110, 116, 111, 114, 121, 73, 116, 101, 109, 86,
       105, 101, 119 >>,
    << 68, 101, 99, 97, 121, 105, 110, 103, 73, 110, 118, 101, 110, 116,
       111, 114, 121, 73, 116, 101, 109, 86, 105, 101, 119 >>,
    << 85, 112, 103, 114, 97, 100, 101, 86, 105, 101, 119, 82, 101, 99,
       101, 105, 118, 101, 114 >>,
    << 83, 117, 114, 118, 105, 118, 97, 108, 66, 111, 111, 107, 66, 101,
       115, 116, 105, 97, 114, 121 >>,
    << 73, 116, 101, 109, 83, 116, 111, 114, 97, 103, 101 >>,
    << 65, 99, 116, 105, 118, 101, 65, 114, 101, 97, 73, 110, 102, 111 >>,
    << 72, 101, 108, 100, 73, 116, 101, 109, 115, 68, 97, 116, 97 >>,
    << 84, 105, 99, 107, 79, 102, 102, 83, 121, 115, 116, 101, 109 >>,
    << 80, 97, 115, 115, 101, 110, 103, 101, 114, 77, 97, 110, 105, 102,
       101, 115, 116 >>,
    << 84, 104, 101, 70, 111, 114, 101, 115, 116, 46, 80, 108, 97, 121,
       101, 114, 46 >>
    >>

\* forest_player_swap.is_world_object: world_types
ps_world_types == <<
    << 66, 117, 105, 108, 100, 105, 110, 103, 72, 101, 97, 108, 116,
       104 >>,
    << 65, 114, 99, 104, 105, 116, 101, 99, 116 >>,
    << 84, 114, 101, 101, 83, 116, 114, 117, 99, 116, 117, 114, 101 >>,
    << 70, 105, 114, 101, 50 >>,
    << 67, 111, 111, 107 >>
    >>

\* is_player_object(obj)
is_player_object(obj) ==
    \E k \in 1..Len(ps_player_types) :
        Contains(obj.type_name, ps_player_types[k])

\* is_world_object(obj)
is_world_object(obj) ==
    \E k \in 1..Len(ps_world_types) :
        Contains(obj.type_name, ps_world_types[k])

\* extract_player_objects(data)
extract_player_objects(bytes) ==
    SelectSeq(find_object_boundaries(bytes), is_player_object)

\* extract_world_objects(data)
extract_world_objects(bytes) ==
    SelectSeq(find_object_boundaries(bytes), is_world_object)

\* analyze_file, "for blob in blobs": the blobs counted in player_count and
\* those counted in world_count, by their offsets
count_blobs(found) ==
    [player |-> {found[i].offset : i \in
                    {k \in 1..Len(found) : is_player_data(found[k])}},
     world |-> {found[i].offset : i \in
                    {k \in 1..Len(found) : ~is_player_data(found[k])}}]

\* the objects classified: up to MaxObjects blobs of one type each
MaxObjects == 2

\* "TheForest.Player.BuildingHealth", "TheForest.Buildings.ItemStorage",
\* "TheForest.Buildings.Cook", "UnityEngine.Transform"
ObjectNames == {
    << 84, 104, 101, 70, 111, 114, 101, 115, 116, 46, 80, 108, 97, 121,
       101, 114, 46, 66, 117, 105, 108, 100, 105, 110, 103, 72, 101, 97,
       108, 116, 104 >>,
    << 84, 104, 101, 70, 111, 114, 101, 115, 116, 46, 66, 117, 105, 108,
       100, 105, 110, 103, 115, 46, 73, 116, 101, 109, 83, 116, 111, 114,
       97, 103, 101 >>,
    << 84, 104, 101, 70, 111, 114, 101, 115, 116, 46, 66, 117, 105, 108,
       100, 105, 110, 103, 115, 46, 67, 111, 111, 107 >>,
    << 85, 110, 105, 116, 121, 69, 110, 103, 105, 110, 101, 46, 84, 114,
       97, 110, 115, 102, 111, 114, 109 >>
    }

ObjectPayloads ==
    {Concat(c) : c \in SeqsUpTo({typed_blob(n, 1) : n \in ObjectNames}
                                \cup {BlobUntyped}, MaxObjects)}

InitClassify ==
    /\ pc = "start"
    /\ tool \in {"v2", "ps"}
    /\ payload \in ObjectPayloads
    /\ disk = Idle /\ env = NoEnvelope /\ env0 = NoEnvelope
    /\ value = 0 /\ wire = Idle /\ readback = Idle
    /\ start = 0 /\ blobs = Idle
    /\ data = Idle /\ data0 = Idle /\ pos = 0 /\ fval = 0
    /\ editor = Idle /\ saved = Idle
    /\ source = Idle /\ report = Idle /\ stack = Idle

\* extract_player_objects(data) and extract_world_objects(data): the
\* objects each returns, by their start offsets
ExtractObjects ==
    /\ pc = "start"
    /\ tool = "ps"
    /\ \E objects \in {find_object_boundaries(payload)} :
       \E players \in {extract_player_objects(payload)},
          worlds \in {extract_world_objects(payload)} :
            /\ blobs' = objects
            /\ report' = [player |-> {players[i].start : i \in 1..Len(players)},
                          world |-> {worlds[i].start : i \in 1..Len(worlds)}]
    /\ pc' = "classified"
    /\ UNCHANGED <<tool, disk, env, env0, value, wire, readback, payload,
                   start, data, data0, pos, fval, editor, saved, source,
                   stack>>

\* analyze_file: blobs = find_blobs(inner, data_start) and the count loop
CountBlobs ==
    /\ pc = "start"
    /\ tool = "v2"
    /\ \E found \in {find_blobs(payload, start)} :
            /\ blobs' = found
            /\ report' = count_blobs(found)
    /\ pc' = "classified"
    /\ UNCHANGED <<tool, disk, env, env0, value, wire, readback, payload,
                   start, data, data0, pos, fval, editor, saved, source,
                   stack>>

NextClassify == ExtractObjects \/ CountBlobs

SpecClassify == InitClassify /\ [][NextClassify]_vars

\* C15: no object is reported both as a player object and as a world
\* object; in forest_player_swap an object whose type name holds a player
\* marker is a player object only, one that holds a world marker and no
\* player marker is a world object only, and any other is neither.
C15_OneCategory ==
    pc = "classified" =>
        /\ report.player \cap report.world = {}
        /\ tool = "ps" =>
            \A i \in 1..Len(blobs) :
                LET o == blobs[i]
                    category == IF is_player_object(o) THEN "Player"
                                ELSE IF is_world_object(o) THEN "World"
                                ELSE "Unknown"
                IN  /\ o.start \in report.player <=> category = "Player"
                    /\ o.start \in report.world <=> category = "World"

-----------------------------------------------------------------------------
(* the editor's cached offsets and the counts of its batch edits *)

\* C16: on a loaded editor, after any edits, the buffer has the length it
\* had at load and the four bytes at every building's hp_offset are the
\* little-endian float32 encoding of the building's cached hp.
C16_OffsetsValid ==
    pc = "loaded" =>
        /\ Len(editor.fully_decoded) = Len(data0)
        /\ \A i \in 1..Len(editor.buildings) :
              LET b == editor.buildings[i]
              IN  Slice(editor.fully_decoded, b.hp_offset, b.hp_offset + 4)
                      = PackF32(b.hp)

\* C17: the count a batch edit returns is the number of 4-byte fields it
\* overwrote.
C17_BatchCount ==
    (pc = "loaded" /\ report # Idle /\ "count" \in DOMAIN report)
        => report.count = Cardinality(report.written)

(***************************************************************************)
(* The recursive decoders, one call at a time.                             *)
(* forest_decoder.decode_all_base64 and forest_editor.decode_nested_base64 *)
(* run as a machine whose stack holds the calls in progress: each frame is *)
(* one call with its buffer, its depth, the scan position pos (which is    *)
(* also last_end), and the output gathered so far (segments / result).     *)
(***************************************************************************)

\* forest_decoder.decode_all_base64, the constant of "if depth < 5"
DecoderDepth == 5

\* a call that has just been entered
call_frame(bytes, depth) ==
    [bytes |-> bytes, depth |-> depth, pos |-> 0, acc |-> << >>,
     mode |-> "enter"]

\* "if depth > 5: return data" (forest_editor only)
returns_at_once(t, depth) ==
    t = "editor" /\ depth > MaxNestedDepth

\* whether a successful decode at this depth is decoded again: always in
\* forest_editor (the callee checks its own depth), "if depth < 5" in
\* forest_decoder
recurses(t, depth) ==
    t = "editor" \/ depth < DecoderDepth

\* the scan finds a marker at idx whose run is empty, the frame stopped
\* looking for markers: frozen on the marker instead of moving past it
empty_run_frame_stuck(t, f, idx, first) ==
    f

\* the scan finds a marker at idx whose run is empty ("end > start" is
\* false): forest_editor copies the marker, forest_decoder appends nothing,
\* both go on at pos = end = first
empty_run_frame(t, f, idx, first) ==
    [f EXCEPT !.pos = first,
              !.acc = f.acc \o Slice(f.bytes, f.pos, idx)
                        \o (IF t = "editor" THEN Slice(f.bytes, idx, first)
                            ELSE << >>)]

\* the decode of the run fails, the matched span left out of the output
failed_run_frame_dropped(f, idx, end) ==
    [f EXCEPT !.pos = end,
              !.acc = f.acc \o Slice(f.bytes, f.pos, idx)]

\* the decode of the run b[first:end] fails: "except:" appends
\* result[idx:end] (forest_decoder) / data[idx:end] (forest_editor), and
\* the scan goes on at pos = end
failed_run_frame(f, idx, end) ==
    [f EXCEPT !.pos = end,
              !.acc = f.acc \o Slice(f.bytes, f.pos, idx)
                        \o Slice(f.bytes, idx, end)]

\* the run decodes and is not decoded again (forest_decoder at depth 5)
decoded_run_frame(f, idx, end, decoded) ==
    [f EXCEPT !.pos = end,
              !.acc = f.acc \o Slice(f.bytes, f.pos, idx) \o decoded]

\* the run decodes and is handed to a nested call: the frame waits for it
waiting_run_frame(f, idx, end) ==
    [f EXCEPT !.pos = end,
              !.acc = f.acc \o Slice(f.bytes, f.pos, idx),
              !.mode = "wait_run"]

\* a call returns v: its frame is popped and its caller takes the value,
\* as the whole result ("return decode_...(decoded, depth + 1)") or as one
\* more segment of its scan
pop_with(stk, v) ==
    LET n == Len(stk)
        rest == SubSeq(stk, 1, n - 1)
        caller == stk[n - 1]
    IN  IF n = 1 THEN << >>
        ELSE IF caller.mode = "wait_whole"
             THEN [rest EXCEPT ![n - 1] =
                       [caller EXCEPT !.mode = "returning", !.acc = v]]
             ELSE [rest EXCEPT ![n - 1] =
                       [caller EXCEPT !.mode = "scan",
                                      !.acc = caller.acc \o v]]

\* where the bytes a frame appends next fall in the final output: after
\* everything the calls in progress have gathered
output_offset(stk) ==
    LET RECURSIVE sum(_)
        sum(i) == IF i = 0 THEN 0
                  ELSE sum(i - 1)
                       + (IF stk[i].mode = "wait_whole" THEN 0
                          ELSE Len(stk[i].acc))
    IN  sum(Len(stk))

\* the bookkeeping of a run of the machines: the depths at which a whole
\* buffer was base64-decoded, the spans copied by the scans with their
\* place in the output, the markers met, and the value returned
NoReport ==
    [whole |-> {}, copied |-> {}, markers |-> {}, value |-> << >>]

Top == stack[Len(stack)]

\* a call returns v
Return(v) ==
    /\ stack' = pop_with(stack, v)
    /\ pc' = IF Len(stack) = 1 THEN "done" ELSE "running"

\* the first lines of a call: the depth check, then the whole-buffer test
Enter ==
    /\ pc = "running" /\ Top.mode = "enter"
    /\ \E f \in {Top} :
       \E n \in {Len(stack)} :
         IF returns_at_once(tool, f.depth)
         THEN /\ Return(f.bytes)
              /\ report' = IF n = 1 THEN [report EXCEPT !.value = f.bytes]
                           ELSE report
         ELSE \E all_b64 \in {\A i \in 1..Len(f.bytes) :
                                 f.bytes[i] \in B64CharsNL} :
              \E try \in {IF all_b64 THEN b64decode(f.bytes)
                          ELSE [ok |-> FALSE, val |-> << >>]} :
                IF try.ok /\ recurses(tool, f.depth)
                THEN /\ stack' = [stack EXCEPT ![n].mode = "wait_whole"]
                                    \o << call_frame(try.val, f.depth + 1) >>
                     /\ pc' = "running"
                     /\ report' = [report EXCEPT
                                     !.whole = @ \cup {f.depth}]
                ELSE IF try.ok
                THEN /\ Return(try.val)
                     /\ report' = [report EXCEPT
                                     !.whole = @ \cup {f.depth},
                                     !.value = IF n = 1 THEN try.val ELSE @]
                ELSE /\ stack' = [stack EXCEPT ![n].mode = "scan"]
                     /\ pc' = "running"
                     /\ report' = report
    /\ UNCHANGED <<tool, disk, env, env0, value, wire, readback, payload,
                   start, blobs, data, data0, pos, fval, editor, saved,
                   source>>

\* one pass of "while pos < len(...)", or the end of the loop
Scan ==
    /\ pc = "running" /\ Top.mode = "scan"
    /\ \E f \in {Top} :
       \E n \in {Len(stack)} :
       \E idx \in {Find(f.bytes, NOCOMPRESSION, f.pos)} :
         IF f.pos >= Len(f.bytes) \/ idx = -1
         THEN \E rest \in {f.acc \o Slice(f.bytes, f.pos, Len(f.bytes))} :
                /\ Return(rest)
                /\ report' = [report EXCEPT
                                !.value = IF n = 1 THEN rest ELSE @]
         ELSE \E first \in {idx + Len(NOCOMPRESSION)} :
              \E end \in {RunEnd(f.bytes, first)} :
              \E run \in {b64decode(Slice(f.bytes, first, end))} :
              \E at \in {output_offset(stack)} :
              \E seen \in {[of |-> f.bytes, depth |-> f.depth,
                            idx |-> idx, end |-> end,
                            failed |-> end > first /\ ~run.ok]} :
              \E before \in {[at |-> at, kind |-> "before",
                              span |-> Slice(f.bytes, f.pos, idx)]} :
                IF end > first /\ run.ok /\ recurses(tool, f.depth)
                THEN /\ stack' = [stack EXCEPT
                                    ![n] = waiting_run_frame(f, idx, end)]
                                    \o << call_frame(run.val, f.depth + 1) >>
                     /\ pc' = "running"
                     /\ report' = [report EXCEPT
                                     !.copied = @ \cup {before},
                                     !.markers = @ \cup {seen}]
                ELSE IF end > first /\ run.ok
                THEN /\ stack' = [stack EXCEPT
                              ![n] = decoded_run_frame(f, idx, end, run.val)]
                     /\ pc' = "running"
                     /\ report' = [report EXCEPT
                                     !.copied = @ \cup {before},
                                     !.markers = @ \cup {seen}]
                ELSE IF end > first
                THEN /\ stack' = [stack EXCEPT
                                    ![n] = failed_run_frame(f, idx, end)]
                     /\ pc' = "running"
                     /\ report' = [report EXCEPT
                                     !.copied = @ \cup {before,
                                        [at |-> at + Len(before.span),
                                         kind |-> "failed",
                                         span |-> Slice(f.bytes, idx, end)]},
                                     !.markers = @ \cup {seen}]
                ELSE /\ stack' = [stack EXCEPT
                              ![n] = empty_run_frame(tool, f, idx, first)]
                     /\ pc' = "running"
                     /\ report' = [report EXCEPT
                                     !.copied = @ \cup {before},
                                     !.markers = @ \cup {seen}]
    /\ UNCHANGED <<tool, disk, env, env0, value, wire, readback, payload,
                   start, blobs, data, data0, pos, fval, editor, saved,
                   source>>

\* "return decode_...(decoded, depth + 1)": the nested call's value is
\* this call's value
Unwind ==
    /\ pc = "running" /\ Top.mode = "returning"
    /\ Return(Top.acc)
    /\ report' = [report EXCEPT
                    !.value = IF Len(stack) = 1 THEN Top.acc ELSE @]
    /\ UNCHANGED <<tool, disk, env, env0, value, wire, readback, payload,
                   start, blobs, data, data0, pos, fval, editor, saved,
                   source>>

\* the buffers decoded: a seed byte wrapped in up to MaxLayers layers of
\* base64, and up to MaxPieces pieces put side by side
MaxLayers == 7
MaxPieces == 2

RECURSIVE layered(_, _)
layered(seed, k) ==
    IF k = 0 THEN seed ELSE b64encode(layered(seed, k - 1))

\* a plain byte; a marker alone; a marker and a run that does not decode
\* (one character); a marker and a run that decodes; a marker and a run
\* whose decoded content has markers again, one with a run that does not
\* decode and one with a run that does
DecodePieces ==
    { << 1 >>,
      NOCOMPRESSION,
      NOCOMPRESSION \o << 65 >>,
      NOCOMPRESSION \o b64encode(<< 2 >>),
      NOCOMPRESSION \o b64encode(<< 1 >> \o NOCOMPRESSION \o << 65, 1 >>
                                  \o NOCOMPRESSION \o b64encode(<< 2 >>)) }

RECURSIVE piece_rows(_)
piece_rows(n) ==
    IF n = 0 THEN { << >> }
    ELSE LET shorter == piece_rows(n - 1)
         IN  shorter \cup {r \o p : r \in shorter, p \in DecodePieces}

DecodeInputs ==
    {layered(<< 1 >>, k) : k \in 0..MaxLayers} \cup piece_rows(MaxPieces)

InitDecode ==
    /\ tool \in {"decoder", "editor"}
    /\ data \in DecodeInputs
    /\ stack = << call_frame(data, 0) >>
    /\ report = NoReport
    /\ pc = "running"
    /\ disk = Idle /\ env = NoEnvelope /\ env0 = NoEnvelope
    /\ value = 0 /\ wire = Idle /\ readback = 0
    /\ payload = Idle /\ start = 0 /\ blobs = Idle
    /\ data0 = Idle /\ pos = 0 /\ fval = 0
    /\ editor = Idle /\ saved = Idle /\ source = Idle

NextDecode == Enter \/ Scan \/ Unwind

SpecDecode == InitDecode /\ [][NextDecode]_vars

\* every call in progress runs to its return
SpecDecodeLive == SpecDecode /\ WF_vars(NextDecode)

(* the depth cap, termination, and the spans the scans copy *)

\* the depth below which the tool's source compares: "if depth < 5" in
\* forest_decoder, "if depth > 5" in forest_editor
DepthCap == IF tool = "decoder" THEN DecoderDepth ELSE MaxNestedDepth

\* C18: a buffer that is base64 as a whole is base64-decoded only at the
\* depths 0 to 4 (below the cap of 5), so at most 5 layers of whole-buffer
\* base64 are removed and a buffer that is still base64 at depth 5 is not
\* decoded as a whole.
C18_DepthCap ==
    (pc \in {"running", "done"} /\ "whole" \in DOMAIN report)
        => \A d \in report.whole : d < DepthCap

\* C19: the decoder terminates on every input, the empty buffer and
\* buffers whose decoded content has markers again included: the calls in
\* progress never exceed the depth cap (depths 0 to cap + 1 at most), every
\* pass of the marker scan that stays in its call moves the scan position
\* forward, and every run reaches its return.
C19_Terminates ==
    /\ [](pc = "running" =>
             /\ Len(stack) <= DepthCap + 2
             /\ \A i \in 1..Len(stack) : stack[i].depth = i - 1)
    /\ [][(pc = "running" /\ pc' = "running" /\ Top.mode = "scan"
             /\ Len(stack') >= Len(stack))
           => stack'[Len(stack)].pos > Top.pos]_vars
    /\ <>(pc = "done")

\* C19 witness: a run has returned after a nested call scanned markers of
\* its own, and after a scan moved past a marker
C19_Witness ==
    /\ pc = "done"
    /\ \E m \in report.markers : m.depth > 0
    /\ \E m \in report.markers : m.depth = 0

\* C20: every span the marker scan copies is in the output unchanged at its
\* place: the bytes before each marker, and the marker with its run when
\* the run does not base64-decode; no error is raised, and the next marker
\* at or after the end of a span that failed to decode is processed too.
C20_PassThrough ==
    (pc = "done" /\ "copied" \in DOMAIN report) =>
        /\ \A c \in report.copied :
              Slice(report.value, c.at, c.at + Len(c.span)) = c.span
        /\ \A m \in report.markers :
              LET later == Find(m.of, NOCOMPRESSION, m.end)
              IN  (m.failed /\ later # -1) =>
                      \E n \in report.markers :
                          n.of = m.of /\ n.depth = m.depth /\ n.idx = later

\* C20 witness: a run has returned in which a run after a marker failed to
\* decode, bytes in front of it were copied, and a later marker of the same
\* buffer was processed and its run decoded
C20_Witness ==
    /\ pc = "done"
    /\ \E c \in report.copied : c.kind = "failed" /\ c.at > 0
    /\ \E m, n \in report.markers :
          /\ m.failed /\ ~n.failed
          /\ n.of = m.of /\ n.idx >= m.end /\ n.end > n.idx + Len(NOCOMPRESSION)

-----------------------------------------------------------------------------
(* the two decode_resume functions on one file *)

\* what follows the base64 run in the file: nothing, a byte outside the
\* alphabet, and such a byte followed by more base64 characters
ProbeTails == { << >>, << 1 >>, << 1, 65 >>, << 1, 65, 65, 65, 65 >> }

\* n line feeds
LineFeeds(n) == [i \in 1..n |-> 10]

\* files that are base64 from the start, with one byte outside the
\* alphabet at the offset bad: the base64 of a marked file, line feeds up
\* to the offset, the byte
late_byte_file(f, bad) ==
    b64encode(f) \o LineFeeds(bad - Len(b64encode(f))) \o << 1 >>

\* the offsets of the byte: the last one inside raw[:1000], the first one
\* past it
LateOffsets == {Base64ProbeLen - 1, Base64ProbeLen}

ProbeFiles ==
    LET marked == {h \o NOCOMPRESSION \o b64encode(q) \o t :
                      h \in Headers, q \in Payloads, t \in ProbeTails}
        small == {h \o NOCOMPRESSION \o b64encode(q) :
                      h \in {<< >>, << 1 >>}, q \in {<< 1 >>, << 1, 200 >>}}
    IN  marked \cup {b64encode(f) : f \in marked}
               \cup {late_byte_file(f, bad) : f \in small, bad \in LateOffsets}

\* a call of decode_resume: its result, and the value of its local
\* is_base64
decode_call(t, raw) ==
    [done |-> TRUE, result |-> decode_resume(t, raw),
     is_base64 |-> outer_decode(t, raw).is_base64]

NoCall == [done |-> FALSE, result |-> NoEnvelope, is_base64 |-> FALSE]

InitProbe ==
    /\ pc = "start"
    /\ disk \in ProbeFiles
    /\ report = [v2 |-> NoCall, ps |-> NoCall]
    /\ tool = "" /\ env = NoEnvelope /\ env0 = NoEnvelope
    /\ value = 0 /\ wire = Idle /\ readback = Idle
    /\ payload = Idle /\ start = 0 /\ blobs = Idle
    /\ data = Idle /\ data0 = Idle /\ pos = 0 /\ fval = 0
    /\ editor = Idle /\ saved = Idle
    /\ source = Idle /\ stack = Idle

\* forest_swap_v2.decode_resume(path)
DecodeResumeV2 ==
    /\ ~report.v2.done
    /\ report' = [report EXCEPT !.v2 = decode_call("v2", disk)]
    /\ tool' = "v2"
    /\ pc' = IF report.ps.done THEN "both" ELSE "one"
    /\ UNCHANGED <<disk, env, env0, value, wire, readback, payload, start,
                   blobs, data, data0, pos, fval, editor, saved, source,
                   stack>>

\* forest_player_swap.decode_resume(path)
DecodeResumePs ==
    /\ ~report.ps.done
    /\ report' = [report EXCEPT !.ps = decode_call("ps", disk)]
    /\ tool' = "ps"
    /\ pc' = IF report.v2.done THEN "both" ELSE "one"
    /\ UNCHANGED <<disk, env, env0, value, wire, readback, payload, start,
                   blobs, data, data0, pos, fval, editor, saved, source,
                   stack>>

NextProbe == DecodeResumeV2 \/ DecodeResumePs

SpecProbe == InitProbe /\ [][NextProbe]_vars

\* every byte of the file is in the base64 alphabet with CR and LF
AllBase64(raw) == \A i \in 1..Len(raw) : raw[i] \in B64CharsNL

\* C21: decode_resume takes the file for outer base64 (and base64-decodes
\* it as a whole) if and only if every byte of the whole file belongs to the
\* base64 alphabet (letters, digits, '+', '/', '=', CR, LF); one byte
\* outside it, at any position, makes the file not outer-base64.
C21_WholeFileTested ==
    (pc \in {"one", "both"} /\ "v2" \in DOMAIN report) =>
        /\ report.v2.done => (report.v2.is_base64 <=> AllBase64(disk))
        /\ report.ps.done => (report.ps.is_base64 <=> AllBase64(disk))

\* the once-decoded bytes of a file whose call returned
OnceDecoded(c) ==
    IF c.is_base64 THEN b64decode(disk).val ELSE disk

\* the maximal run of base64 characters right after the first marker
RunAfterMarker(decoded) ==
    LET first == Find(decoded, NOCOMPRESSION, 0) + Len(NOCOMPRESSION)
    IN  Slice(decoded, first, RunEnd(decoded, first))

\* C22: the inner payload decode_resume returns is the base64 decoding of
\* exactly the maximal run of base64-alphabet bytes right after the first
\* marker, so bytes after the end of the run have no influence on it, and
\* the two swap tools return the same inner payload for the same file.
C22_InnerFromRun ==
    (pc \in {"one", "both"} /\ "v2" \in DOMAIN report) =>
        /\ \A c \in {report.v2, report.ps} :
              (c.done /\ c.result.status = "ok") =>
                  c.result.inner = b64decode(RunAfterMarker(OnceDecoded(c))).val
        /\ (pc = "both" /\ report.v2.result.status = "ok"
                /\ report.ps.result.status = "ok")
              => report.v2.result.inner = report.ps.result.inner

-----------------------------------------------------------------------------
(* locating the hp fields: _parse_buildings on a decoded buffer *)

MaxLocatePieces == 4

\* the type name with its field name, the value signature with a float
\* that is out of range (0.0 and 100000.0) or in range (30.0 and 200.0),
\* and a byte of something else
LocatePieces ==
    { Str_BuildingHealth \o Str_hp,
      value_pattern \o PackF32(FromInt(0)),
      value_pattern \o PackF32(FromInt(100000)),
      value_pattern \o PackF32(FromInt(30)),
      value_pattern \o PackF32(FromInt(200)),
      << 2 >> }

RECURSIVE locate_rows(_)
locate_rows(n) ==
    IF n = 0 THEN { << >> }
    ELSE LET shorter == locate_rows(n - 1)
         IN  shorter \cup {r \o q : r \in shorter, q \in LocatePieces}

LocateBuffers == locate_rows(MaxLocatePieces)

InitLocate ==
    /\ pc = "start"
    /\ data \in LocateBuffers
    /\ editor = Idle
    /\ tool = "editor" /\ disk = Idle
    /\ env = NoEnvelope /\ env0 = NoEnvelope
    /\ value = 0 /\ wire = Idle /\ readback = Idle
    /\ payload = Idle /\ start = 0 /\ blobs = Idle
    /\ data0 = Idle /\ pos = 0 /\ fval = 0 /\ saved = Idle
    /\ source = Idle /\ report = Idle /\ stack = Idle

\* self._parse_buildings() on self.fully_decoded
ParseBuildings ==
    /\ pc = "start"
    /\ editor' = [fully_decoded |-> data, buildings |-> parse_buildings(data)]
    /\ pc' = "parsed"
    /\ UNCHANGED <<tool, disk, env, env0, value, wire, readback, payload,
                   start, blobs, data, data0, pos, fval, saved, source,
                   report, stack>>

NextLocate == ParseBuildings

SpecLocate == InitLocate /\ [][NextLocate]_vars

\* the offset of the _hp token the code uses for the type-name occurrence
\* at offset p: the first one in the context that starts 50 bytes before
\* p; -1 when the context has none
TokenFor(p) ==
    LET context_start == Max(0, p - 50)
        hp_idx == Find(Slice(data, context_start, p + 200), Str_hp, 0)
    IN  IF hp_idx = -1 THEN -1 ELSE context_start + hp_idx

\* the offsets in the window of 100 bytes after the token at which the
\* value signature occurs, and those followed by a float in (0, 100000)
SignaturesAfter(tok) ==
    {v \in tok..(tok + 100 - Len(value_pattern)) :
        OccursAt(data, value_pattern, v)}

InRange(v) ==
    LET f == read_float(data, v + Len(value_pattern))
    IN  f.ok /\ FLess(FromInt(0), f.val) /\ FLess(f.val, FromInt(100000))

EntriesAt(p) ==
    {i \in 1..Len(editor.buildings) : editor.buildings[i].position = p}

\* C25: a candidate is accepted only if the float after the value
\* signature lies strictly between 0 and 100000; when the first signature
\* in the window after the _hp token has a value out of range, the scan goes
\* on and a later signature in the window with a value in range is taken;
\* when none qualifies, the type-name occurrence gets no entry.
C25_ScanGoesOn ==
    pc = "parsed" =>
        \A p \in 0..Len(data) :
            OccursAt(data, Str_BuildingHealth, p) =>
                LET tok == TokenFor(p)
                    good == IF tok = -1 THEN {}
                            ELSE {v \in SignaturesAfter(tok) : InRange(v)}
                IN  IF good = {} THEN EntriesAt(p) = {}
                    ELSE \E i \in EntriesAt(p) :
                            /\ editor.buildings[i].hp_offset
                                  = Least(good) + Len(value_pattern)
                            /\ editor.buildings[i].hp
                                  = read_float(data, Least(good)
                                        + Len(value_pattern)).val

\* C26: every located hp field lies after the type-name occurrence of its
\* own entry: the _hp token used is at or after that occurrence, the value
\* signature starts within 30 bytes after the token, hp_offset + 4 is at
\* most the length of the buffer, and no two entries share an hp_offset.
C26_FieldOfOwnBlob ==
    pc = "parsed" =>
        /\ \A i \in 1..Len(editor.buildings) :
              LET b == editor.buildings[i]
                  tok == TokenFor(b.position)
                  sig == b.hp_offset - Len(value_pattern)
              IN  /\ tok >= b.position
                  /\ sig >= tok /\ sig <= tok + 30
                  /\ b.hp_offset + 4 <= Len(data)
        /\ \A i, j \in 1..Len(editor.buildings) :
              i # j => editor.buildings[i].hp_offset
                           # editor.buildings[j].hp_offset

-----------------------------------------------------------------------------
(* the three tools writing their output: which files are copied and        *)
(* written, and in which order                                             *)

\* the files of the directory: a function from the paths that exist to the
\* bytes of the file; the backup path of a file is its path followed by
\* ".backup_" and the time of the call
ResumePath == "__RESUME__"

OtherPath == "out.sav"

BackupPath(path) ==
    IF path = ResumePath THEN "__RESUME__.backup_T" ELSE "out.sav.backup_T"

\* files with the file at path holding bytes
Put(files, path, bytes) ==
    [x \in DOMAIN files \cup {path} |-> IF x = path THEN bytes ELSE files[x]]

\* os.path.exists(path)
exists(fs, path) == path \in DOMAIN fs.files

\* shutil.copy2(src, dst)
copy2(fs, src, dst) ==
    [files |-> Put(fs.files, dst, fs.files[src]),
     ops |-> Append(fs.ops, [op |-> "copy", path |-> src, to |-> dst,
                             bytes |-> fs.files[src]])]

\* open(path, 'wb').write(bytes)
write_file(fs, path, bytes) ==
    [files |-> Put(fs.files, path, bytes),
     ops |-> Append(fs.ops, [op |-> "write", path |-> path, to |-> path,
                             bytes |-> bytes])]

\* inject_cs_to_resume, group_by_type: obj.type_name.split('.')[-1]
group_key(obj) ==
    LET name == obj.type_name
        dots == {i \in 1..Len(name) : name[i] = 46}
        last == IF dots = {} THEN 0
                ELSE CHOOSE i \in dots : \A j \in dots : j <= i
    IN  SubSeq(name, last + 1, Len(name))

\* inject_cs_to_resume, the replacements applied to inner: the i-th player
\* object of a key is replaced by the i-th player object of that key in the
\* CS file, when there is one; the sections are replaced from the last to
\* the first, so what is in front of a section stays in place
inject_inner(inner, cs_data) ==
    LET resume_objects == find_object_boundaries(inner)
        cs_player == SelectSeq(find_object_boundaries(cs_data),
                               is_player_object)
        rank(i) == Cardinality({j \in 1..i :
                        /\ is_player_object(resume_objects[j])
                        /\ group_key(resume_objects[j])
                                = group_key(resume_objects[i])})
        piece(i) ==
            LET obj == resume_objects[i]
                cs_objs == SelectSeq(cs_player,
                                LAMBDA o : group_key(o) = group_key(obj))
            IN  IF is_player_object(obj) /\ rank(i) <= Len(cs_objs)
                THEN cs_objs[rank(i)].data
                ELSE obj.data
    IN  IF Len(resume_objects) = 0 THEN inner
        ELSE Slice(inner, 0, resume_objects[1].start)
                \o Concat([i \in 1..Len(resume_objects) |-> piece(i)])

\* forest_player_swap.inject_cs_to_resume(resume_path, cs_path,
\* output_path), from "# Save" on: the backup is made when the output goes
\* to another path, and it is a copy of resume_path
inject_save(fs, resume_path, output_path, final) ==
    LET backed == IF output_path # resume_path /\ exists(fs, resume_path)
                  THEN copy2(fs, resume_path, BackupPath(resume_path))
                  ELSE fs
    IN  write_file(backed, output_path, final)

\* forest_swap_v2.swap_player_data, from "# Create backup" to the write
swap_save(fs, output_path, final) ==
    LET backed == IF exists(fs, output_path)
                  THEN copy2(fs, output_path, BackupPath(output_path))
                  ELSE fs
    IN  write_file(backed, output_path, final)

\* ForestSaveEditor.save(output_path, backup) of a modified editor: the
\* backup is made before the marker is looked for
editor_save(fs, ed, output_path, backup) ==
    LET backed == IF backup /\ exists(fs, output_path)
                  THEN copy2(fs, output_path, BackupPath(output_path))
                  ELSE fs
    IN  IF Find(ed.decoded_data, NOCOMPRESSION, 0) # -1
        THEN write_file(backed, output_path, save_bytes(ed))
        ELSE backed

\* a player object as forest_player_swap sees it: the marker and a name
\* under "TheForest.Player."
ps_player_blob(content) == SerV10Marker \o type_patterns[4] \o << content >>

\* the payloads of the __RESUME__ file, the files made of them (with and
\* without the outer base64, and one without the marker), the CS files and
\* the bytes of the other file of the directory
BackupInners ==
    {OuterHeader \o typed_blob(Name_PlayerStats, 1) \o ps_player_blob(65),
     OuterHeader \o ps_player_blob(65) \o building_chunk(30)}

BackupFiles ==
    LET plain == {<< 1 >> \o NOCOMPRESSION \o b64encode(i) : i \in BackupInners}
    IN  plain \cup {b64encode(f) : f \in plain} \cup {<< 1, 2 >>}

BackupSources ==
    {OuterHeader \o typed_blob(Name_C_PlayerStats, 2) \o ps_player_blob(66),
     << 6 >>}

OtherBytes == << 7 >>

\* output_path: None ("") or the other path
OutputArgs == {"", OtherPath}

InitBackup ==
    /\ pc = "start"
    /\ tool \in {"v2", "ps", "editor"}
    /\ disk \in BackupFiles
    /\ source \in IF tool = "editor" THEN {Idle} ELSE BackupSources
    /\ \E output \in OutputArgs, there \in BOOLEAN,
          backup \in IF tool = "editor" THEN BOOLEAN ELSE {TRUE},
          new_hp \in IF tool = "editor" THEN EditValues ELSE {0} :
            LET files == IF there
                         THEN Put(Put(<< >>, ResumePath, disk),
                                  OtherPath, OtherBytes)
                         ELSE Put(<< >>, ResumePath, disk)
            IN  report = [args |-> [output |-> output, backup |-> backup,
                                    new_hp |-> new_hp],
                          before |-> files, files |-> files, ops |-> << >>]
    /\ env = NoEnvelope /\ env0 = NoEnvelope
    /\ value = 0 /\ wire = Idle /\ readback = Idle
    /\ payload = Idle /\ start = 0 /\ blobs = Idle
    /\ data = Idle /\ data0 = Idle /\ pos = 0 /\ fval = 0
    /\ editor = Idle /\ saved = Idle /\ stack = Idle

\* "if output_path is None: output_path = resume_path"
OutputPath == IF report.args.output = "" THEN ResumePath ELSE report.args.output

FileSystem == [files |-> report.files, ops |-> report.ops]

\* forest_swap_v2: swap_player_data(resume_path, cs_path, output_path)
SwapCommand ==
    /\ pc = "start" /\ tool = "v2"
    /\ \E e \in {decode_resume_v2(report.files[ResumePath])} :
       \E rh \in {parse_header(e.inner)}, ch \in {parse_header(source)} :
           IF e.status # "ok" \/ ~rh.ok \/ ~ch.ok
           THEN pc' = "raised" /\ UNCHANGED report
           ELSE \E r \in {rebuild_inner(e.inner, rh.pos, source, ch.pos)} :
                \E fs \in {swap_save(FileSystem, OutputPath,
                            encode_resume_v2(e.header, r.new_inner,
                                             e.is_base64))} :
                    /\ report' = [report EXCEPT !.files = fs.files,
                                                !.ops = fs.ops]
                    /\ pc' = "ran"
    /\ UNCHANGED <<tool, disk, env, env0, value, wire, readback, payload,
                   start, blobs, data, data0, pos, fval, editor, saved,
                   source, stack>>

\* forest_player_swap: inject_cs_to_resume(resume_path, cs_path,
\* output_path)
InjectCsToResume ==
    /\ pc = "start" /\ tool = "ps"
    /\ \E e \in {decode_resume_ps(report.files[ResumePath])} :
           IF e.status # "ok"
           THEN pc' = "raised" /\ UNCHANGED report
           ELSE \E fs \in {inject_save(FileSystem, ResumePath, OutputPath,
                            encode_resume_ps(e.header,
                                             inject_inner(e.inner, source),
                                             e.is_base64))} :
                    /\ report' = [report EXCEPT !.files = fs.files,
                                                !.ops = fs.ops]
                    /\ pc' = "ran"
    /\ UNCHANGED <<tool, disk, env, env0, value, wire, readback, payload,
                   start, blobs, data, data0, pos, fval, editor, saved,
                   source, stack>>

\* forest_editor: main with --set-all-hp new_hp --save, and --output and
\* --no-backup as given ("if args.set_all_hp" is false for 0)
EditorMain ==
    /\ pc = "start" /\ tool = "editor"
    /\ IF ~decode_base64_file(report.files[ResumePath]).ok
       THEN pc' = "raised" /\ UNCHANGED <<report, editor>>
       ELSE \E loaded \in {load_editor(report.files[ResumePath])} :
            \E ed \in {IF report.args.new_hp # FromInt(0)
                       THEN set_all_building_hp(loaded, report.args.new_hp)
                       ELSE loaded} :
            \E fs \in {IF ed.modified
                       THEN editor_save(FileSystem, ed, OutputPath,
                                        report.args.backup)
                       ELSE FileSystem} :
                /\ report' = [report EXCEPT !.files = fs.files,
                                            !.ops = fs.ops]
                /\ editor' = [ed EXCEPT !.modified =
                                @ /\ Find(ed.decoded_data, NOCOMPRESSION, 0)
                                        = -1]
                /\ pc' = "ran"
    /\ UNCHANGED <<tool, disk, env, env0, value, wire, readback, payload,
                   start, blobs, data, data0, pos, fval, saved,
                   source, stack>>

NextBackup ==
    \/ SwapCommand
    \/ InjectCsToResume
    \/ EditorMain

SpecBackup == InitBackup /\ [][NextBackup]_vars

\* the write at place i of the log went to a file that was there before the
\* tool ran, with backups not switched off
Overwrites(i) ==
    /\ report.ops[i].op = "write"
    /\ report.ops[i].path \in DOMAIN report.before
    /\ report.args.backup

\* C27: in every tool, before the first byte is written to a file that
\* exists (and backups are not disabled), a copy of that file, with the
\* bytes it had, has been made.
C27_BackupBeforeOverwrite ==
    \A i \in 1..Len(report.ops) :
        Overwrites(i) =>
            \E j \in 1..(i - 1) :
                /\ report.ops[j].op = "copy"
                /\ report.ops[j].path = report.ops[i].path
                /\ report.ops[j].bytes = report.before[report.ops[i].path]

\* the same for forest_swap_v2 and forest_editor alone
C27_BackupInV2AndEditor ==
    tool \in {"v2", "editor"} => C27_BackupBeforeOverwrite

\* forest_swap_v2 or forest_editor has overwritten a file that was there
C27_OverwriteSeen ==
    /\ pc = "ran" /\ tool \in {"v2", "editor"}
    /\ \E i \in 1..Len(report.ops) : Overwrites(i)

-----------------------------------------------------------------------------
(* the save protocol of the editor *)

\* the marker is found in the once-decoded data of the editor
MarkerFound == Find(editor.decoded_data, NOCOMPRESSION, 0) # -1

\* the step is a write of the file by save()
SaveWrites == pc = "loaded" /\ pc' = "saved"

-----------------------------------------------------------------------------
(* repair_damaged_buildings with new_hp given *)

\* the step is editor.repair_damaged_buildings(threshold, new_hp)
RepairStep(threshold, new_hp) ==
    /\ pc = "loaded"
    /\ editor' = repair_damaged_buildings(editor, threshold, new_hp)
    /\ report' = batch_outcome(editor, repair_hits(editor, threshold))

\* the offset k lies in the hp field of the building b
InField(k, b) == k >= b.hp_offset /\ k < b.hp_offset + 4

\* C29: after repair_damaged_buildings(threshold, new_hp) with new_hp at
\* least threshold, no building has a cached hp below threshold; the
\* entries that had hp at least threshold are as they were, and the buffer
\* differs from what it was only inside the hp fields of the buildings
\* repaired; the same call made again changes no building, no byte and not
\* the modified flag.
C29_RepairOnce ==
    [][ \A threshold \in EditThresholds, new_hp \in EditValues :
            (RepairStep(threshold, new_hp) /\ ~FLess(new_hp, threshold)) =>
                /\ Len(editor'.buildings) = Len(editor.buildings)
                /\ Len(editor'.fully_decoded) = Len(editor.fully_decoded)
                /\ \A i \in 1..Len(editor.buildings) :
                      /\ ~FLess(editor'.buildings[i].hp, threshold)
                      /\ ~FLess(editor.buildings[i].hp, threshold)
                            => editor'.buildings[i] = editor.buildings[i]
                /\ \A k \in 0..(Len(editor.fully_decoded) - 1) :
                      editor'.fully_decoded[k + 1] # editor.fully_decoded[k + 1]
                        => \E i \in 1..Len(editor.buildings) :
                              /\ FLess(editor.buildings[i].hp, threshold)
                              /\ InField(k, editor.buildings[i])
                /\ editor'.modified
                      = (editor.modified
                            \/ \E i \in 1..Len(editor.buildings) :
                                  FLess(editor.buildings[i].hp, threshold))
                /\ repair_damaged_buildings(editor', threshold, new_hp)
                      = editor'
      ]_vars

\* a repair has written one of two buildings: the one that was below the
\* threshold holds the new hp, 400, the other one keeps its 200
C29_Witness ==
    /\ pc = "loaded"
    /\ report # Idle /\ "count" \in DOMAIN report
    /\ report.count = 1
    /\ Len(editor.buildings) = 2
    /\ editor.buildings[1].hp = FromInt(200)
    /\ editor.buildings[2].hp = FromInt(400)

-----------------------------------------------------------------------------
(* the two recursive decoders on one input *)

\* C30: forest_decoder.decode_all_base64(data) returns the bytes that
\* forest_editor.decode_nested_base64(data) returns, for every input.
C30_DecodersAgree ==
    (pc = "done" /\ tool = "decoder")
        => report.value = decode_nested_base64(data, 0)

\* the run of forest_editor.decode_nested_base64 returns what the function
\* computed in one piece returns
C30_EditorRunIsFunction ==
    (pc = "done" /\ tool = "editor")
        => report.value = decode_nested_base64(data, 0)

====
